---- MODULE Spec2Model ----
(***************************************************************************)
(* Model of the MasterDex "big swaps" tool: fetchWithRetry,                *)
(* searchTokenAcrossChains and masterdexBigSwapsTool.execute.              *)
(*                                                                         *)
(* Strings the code lower-cases, trims, splits or searches are sequences   *)
(* of one-character strings; error messages are sequences of words.        *)
(* A missing (undefined) field is the sentinel of its type.                *)
(***************************************************************************)
EXTENDS Integers, Sequences, FiniteSets, TLC

\* ---------------------------------------------------------------- bounds

\* Upper bound on the number of records the upstream serves during one call.
MaxRecs == 2

\* ------------------------------------------------------ program constants

\* Mutant of maxRetries: one attempt more.
maxRetriesPlusOne == 3 + 1

maxRetries == 3
initialDelay == 1000
defaultLimit == 20
symbolPreview == 20

supportedChains ==
  <<"ethereum", "base", "optimism", "polygon", "arbitrum", "bnb", "blast">>

ChainSet == {supportedChains[i] : i \in DOMAIN supportedChains}

\* ------------------------------------------------------ undefined values

NoStr == "#undefined"
NoSym == <<"#undefined">>
NoNum == 0 - 1000000

\* JavaScript truthiness of an optional string, character string and number.
TruthyStr(s) == s # NoStr /\ s # ""
TruthySym(s) == s # NoSym /\ s # <<>>
TruthyNum(n) == n # NoNum /\ n # 0

\* ---------------------------------------------------------------- strings

\* String.prototype.toLowerCase on the characters the model uses.
LowerChar(c) ==
  CASE c = "A" -> "a"
    [] c = "B" -> "b"
    [] c = "C" -> "c"
    [] c = "S" -> "s"
    [] c = "E" -> "e"
    [] c = "L" -> "l"
    [] c = "U" -> "u"
    [] c = "Y" -> "y"
    [] OTHER -> c

toLowerCase(s) == [i \in DOMAIN s |-> LowerChar(s[i])]

\* String.prototype.includes: t occurs in s as a contiguous substring.
includes(s, t) ==
  \E i \in 0..(Len(s) - Len(t)) : SubSeq(s, i + 1, i + Len(t)) = t

\* String.prototype.trim: drop leading and trailing blanks.
RECURSIVE trimStart(_)
trimStart(s) ==
  IF s # <<>> /\ Head(s) = " " THEN trimStart(Tail(s)) ELSE s

RECURSIVE trimEnd(_)
trimEnd(s) ==
  IF s # <<>> /\ s[Len(s)] = " " THEN trimEnd(SubSeq(s, 1, Len(s) - 1)) ELSE s

trim(s) == trimEnd(trimStart(s))

\* String.prototype.split('/'): the segments between the separators.
RECURSIVE split(_)
split(s) ==
  IF \A i \in DOMAIN s : s[i] # "/"
  THEN <<s>>
  ELSE LET k == CHOOSE i \in DOMAIN s :
                  s[i] = "/" /\ \A j \in 1..(i - 1) : s[j] # "/"
       IN <<SubSeq(s, 1, k - 1)>> \o split(SubSeq(s, k + 1, Len(s)))

\* UTF-16 code units of the symbol characters (Array.prototype.sort default order).
CharCode(c) ==
  CASE c = " " -> 32
    [] c = "/" -> 47
    [] c = "A" -> 65
    [] c = "B" -> 66
    [] c = "C" -> 67
    [] c = "a" -> 97
    [] c = "b" -> 98
    [] c = "c" -> 99
    [] OTHER -> 120

LessStr(s, t) ==
  \E i \in 1..Len(t) :
    /\ \A j \in 1..(i - 1) : j <= Len(s) /\ s[j] = t[j]
    /\ (i > Len(s) \/ CharCode(s[i]) < CharCode(t[i]))

\* Array.from(set).sort(): the strings of a set in ascending code-unit order.
RECURSIVE sortStrings(_)
sortStrings(S) ==
  IF S = {} THEN <<>>
  ELSE LET m == CHOOSE x \in S : \A y \in S \ {x} : LessStr(x, y)
       IN <<m>> \o sortStrings(S \ {m})

\* Array.prototype.slice(0, n).
slice(s, n) == SubSeq(s, 1, IF n < Len(s) THEN n ELSE Len(s))

\* Template-literal rendering of a small count.
numStr(n) ==
  CASE n = 0 -> "0" [] n = 1 -> "1" [] n = 2 -> "2" [] n = 3 -> "3"
    [] n = 4 -> "4" [] n = 5 -> "5" [] n = 6 -> "6" [] n = 7 -> "7"
    [] n = 8 -> "8" [] n = 9 -> "9" [] OTHER -> "many"

\* ----------------------------------------------------------------- errors

\* A JavaScript error value: its name and the words of its message.
Err(name, message) == [name |-> name, message |-> message]

msgIncludes(message, w) == \E i \in DOMAIN message : message[i] = w

\* ------------------------------------------------------------------ urls

baseUrl == "https://api.masterdex.xyz/v1/pairs/getbigSwaps"

chainUrl(c) == <<baseUrl, c>>
multiUrl == <<baseUrl>>
searchUrl == <<"multi-chain-search">>

Urls == {multiUrl} \cup {chainUrl(c) : c \in ChainSet}

\* ---------------------------------------------------------------- records

\* Date.parse of the time strings the upstream sends, in milliseconds.
getTime(t) ==
  CASE t = "1970-01-01T00:00:01Z" -> 1000
    [] t = "1970-01-01T00:00:02Z" -> 2000
    [] t = "1970-01-01T00:00:03Z" -> 3000
    [] OTHER -> 0

\* interface MasterDexTrade, reduced to the fields the tool reads.
Trade(s0, s1, tt, v, t, c) ==
  [symbol0 |-> s0, symbol1 |-> s1, transType |-> tt, tnxvalue |-> v,
   time |-> t, chain |-> c]

\* The outcome of a computation that may throw.
Value(v) == [threw |-> FALSE, val |-> v, err |-> Err("", <<>>)]
Throw(e) == [threw |-> TRUE, val |-> <<>>, err |-> e]

TypeErr == Err("TypeError", <<"Cannot", "read", "properties", "of", "undefined">>)
SyntaxErr == Err("SyntaxError", <<"Unexpected", "token", "in", "JSON">>)
InvalidFormatErr ==
  Err("Error", <<"Invalid", "response", "format", "from", "MasterDex", "API">>)

\* trade.symbolN?.toLowerCase() || ''
symLower(s) == IF s = NoSym THEN <<>> ELSE toLowerCase(s)

\* The token predicate of searchTokenAcrossChains and of execute.
tokenMatches(trade, token) ==
  LET tokenLower == trim(toLowerCase(token))
  IN \/ includes(symLower(trade.symbol0), tokenLower)
     \/ includes(symLower(trade.symbol1), tokenLower)

\* Mutant of pairMatches: the symbols match in the order of the pair only.
pairMatchesOneOrder(trade, pair) ==
  LET parts == split(trim(toLowerCase(pair)))
      a == parts[1]
      b == IF Len(parts) >= 2 THEN parts[2] ELSE NoSym
  IN symLower(trade.symbol0) = a /\ symLower(trade.symbol1) = b

\* The pair predicate of the two older versions of the tool: no trim, and a missing
\* symbol stays undefined.
pairMatchesLegacy(trade, pair) ==
  LET parts == split(toLowerCase(pair))
      a == parts[1]
      b == IF Len(parts) >= 2 THEN parts[2] ELSE NoSym
      s0 == IF trade.symbol0 = NoSym THEN NoSym ELSE toLowerCase(trade.symbol0)
      s1 == IF trade.symbol1 = NoSym THEN NoSym ELSE toLowerCase(trade.symbol1)
  IN (s0 = a /\ s1 = b) \/ (s0 = b /\ s1 = a)

\* The pair predicate of execute: [a, b] = pairLower.split('/').
pairMatches(trade, pair) ==
  LET parts == split(trim(toLowerCase(pair)))
      a == parts[1]
      b == IF Len(parts) >= 2 THEN parts[2] ELSE NoSym
      s0 == symLower(trade.symbol0)
      s1 == symLower(trade.symbol1)
  IN (s0 = a /\ s1 = b) \/ (s0 = b /\ s1 = a)

\* `$${tnxvalue.toLocaleString('en-US', two fraction digits)}`
formatValue(v) == <<"$", numStr(v), ".00">>

symText(s) == IF s = NoSym THEN <<"undefined">> ELSE s

\* Lines 95-129, with the fields the tool computes from the trade; the fields copied
\* verbatim are reached through raw, and time is the instant the time string names
\* (the code renders it in the locale of the host).
formatTradeData(trade) ==
  [pair |-> symText(trade.symbol0) \o <<"/">> \o symText(trade.symbol1),
   type |-> trade.transType,
   value |-> formatValue(trade.tnxvalue),
   time |-> getTime(trade.time),
   chain |-> trade.chain,
   raw |-> trade]

getUniqueSymbols(trades) ==
  sortStrings(
    {trades[i].symbol0 : i \in {j \in DOMAIN trades : TruthySym(trades[j].symbol0)}}
    \cup
    {trades[i].symbol1 : i \in {j \in DOMAIN trades : TruthySym(trades[j].symbol1)}})

\* Mutant of insertByTime: a trade goes before the trades of its own time.
RECURSIVE insertByTimeUnstable(_, _)
insertByTimeUnstable(sorted, t) ==
  IF sorted = <<>> THEN <<t>>
  ELSE IF getTime(Head(sorted).time) > getTime(t.time)
       THEN <<Head(sorted)>> \o insertByTimeUnstable(Tail(sorted), t)
       ELSE <<t>> \o sorted

\* Array.prototype.sort with (a, b) => getTime(b.time) - getTime(a.time): stable,
\* latest first.
RECURSIVE insertByTime(_, _)
insertByTime(sorted, t) ==
  IF sorted = <<>> THEN <<t>>
  ELSE IF getTime(Head(sorted).time) >= getTime(t.time)
       THEN <<Head(sorted)>> \o insertByTime(Tail(sorted), t)
       ELSE <<t>> \o sorted

RECURSIVE sortByTime(_, _)
sortByTime(rest, sorted) ==
  IF rest = <<>> THEN sorted
  ELSE sortByTime(Tail(rest), insertByTime(sorted, Head(rest)))

\* Mutant of groupByChain: a trade goes to the front of its group.
RECURSIVE groupByChainUnshift(_, _, _)
groupByChainUnshift(rest, acc, chain) ==
  IF rest = <<>> THEN acc
  ELSE LET trade == Head(rest)
           chainName == IF TruthyStr(trade.chain) THEN trade.chain
                        ELSE IF TruthyStr(chain) THEN chain ELSE "unknown"
           acc1 == IF chainName \in DOMAIN acc THEN acc
                   ELSE acc @@ (chainName :> <<>>)
       IN groupByChainUnshift(Tail(rest),
            [acc1 EXCEPT ![chainName] = <<formatTradeData(trade)>> \o @],
            chain)

\* results.reduce(...) building resultsByChain.
RECURSIVE groupByChain(_, _, _)
groupByChain(rest, acc, chain) ==
  IF rest = <<>> THEN acc
  ELSE LET trade == Head(rest)
           chainName == IF TruthyStr(trade.chain) THEN trade.chain
                        ELSE IF TruthyStr(chain) THEN chain ELSE "unknown"
           acc1 == IF chainName \in DOMAIN acc THEN acc
                   ELSE acc @@ (chainName :> <<>>)
       IN groupByChain(Tail(rest),
                       [acc1 EXCEPT ![chainName] = Append(@, formatTradeData(trade))],
                       chain)

\* ------------------------------------------------------------------ query

Query(chain, token, pair, minValue, limit, tradeType) ==
  [chain |-> chain, token |-> token, pair |-> pair, minValue |-> minValue,
   limit |-> limit, tradeType |-> tradeType]

\* The destructuring default of execute: limit = 20.
limitOf(q) == IF q.limit = NoNum THEN defaultLimit ELSE q.limit

\* Lines 262-277: the token filter of execute.
afterToken(q, results) ==
  IF TruthySym(q.token) /\ TruthyStr(q.chain)
  THEN SelectSeq(results, LAMBDA t : tokenMatches(t, q.token))
  ELSE results

\* Lines 279-295: the pair filter.
afterPair(q, results) ==
  IF TruthySym(q.pair)
  THEN SelectSeq(results, LAMBDA t : pairMatches(t, q.pair))
  ELSE results

\* Lines 297-305: the trade type filter; trade.transType.toLowerCase() throws on a
\* record without transType.
afterTradeType(q, results) ==
  IF TruthySym(q.tradeType)
  THEN IF \E i \in DOMAIN results : results[i].transType = NoSym
       THEN Throw(TypeErr)
       ELSE Value(SelectSeq(results,
              LAMBDA t : toLowerCase(t.transType) = toLowerCase(q.tradeType)))
  ELSE Value(results)

\* Lines 307-312: the minimum value filter; undefined >= n is false.
afterMinValue(q, results) ==
  IF TruthyNum(q.minValue)
  THEN SelectSeq(results,
         LAMBDA t : t.tnxvalue # NoNum /\ t.tnxvalue >= q.minValue)
  ELSE results

\* Mutant of afterLimit: a limit that is not positive keeps no record.
afterLimitAlwaysSlices(q, results) ==
  slice(results, IF limitOf(q) > 0 THEN limitOf(q) ELSE 0)

\* Mutant of afterLimit: one record more than the limit is kept.
afterLimitOneMore(q, results) ==
  IF TruthyNum(limitOf(q)) /\ limitOf(q) > 0
  THEN slice(results, limitOf(q) + 1)
  ELSE results

\* Lines 317-320: the limit.
afterLimit(q, results) ==
  IF TruthyNum(limitOf(q)) /\ limitOf(q) > 0
  THEN slice(results, limitOf(q))
  ELSE results

\* Lines 258-320: filters, sort and limit.
selectResults(q, fetched) ==
  LET typed == afterTradeType(q, afterPair(q, afterToken(q, fetched)))
  IN IF typed.threw THEN typed
     ELSE Value(afterLimit(q, sortByTime(afterMinValue(q, typed.val), <<>>)))

\* Lines 335-360: responseData.
responseData(q, fetched, results, url, chainsChecked) ==
  LET availableSymbols == getUniqueSymbols(fetched)
  IN [success |-> TRUE,
      data |-> [i \in DOMAIN results |-> formatTradeData(results[i])],
      dataByChain |-> groupByChain(results, <<>>, q.chain),
      count |-> Len(results),
      totalFetched |-> Len(results),
      message |-> [found |-> Len(results) > 0,
                   symbols |-> IF Len(results) > 0 THEN <<>>
                               ELSE slice(availableSymbols, 10)],
      source |-> "MasterDex",
      url |-> url,
      supportedChains |-> supportedChains,
      filteredChain |-> IF TruthyStr(q.chain) THEN q.chain ELSE "all",
      endpointUsed |-> IF TruthyStr(q.chain) THEN "chain-specific"
                       ELSE IF url = searchUrl THEN "cross-chain-search"
                       ELSE "multi-chain",
      chainsChecked |-> chainsChecked,
      availableSymbols |-> slice(availableSymbols, symbolPreview)]

\* Lines 256-363: everything execute does once the records are fetched; formatTradeData
\* throws on a record without tnxvalue.
shapeResponse(q, fetched, url, chainsChecked) ==
  LET selected == selectResults(q, fetched)
  IN IF selected.threw THEN selected
     ELSE IF \E i \in DOMAIN selected.val : selected.val[i].tnxvalue = NoNum
          THEN Throw(TypeErr)
          ELSE Value(responseData(q, fetched, selected.val, url, chainsChecked))

\* Lines 365-375: the catch of execute.
suggestion == "Please try again in a few moments."

failureEnvelope(q, error) ==
  [success |-> FALSE,
   error |-> error.message,
   url |-> IF TruthyStr(q.chain) THEN chainUrl(q.chain) ELSE multiUrl,
   suggestion |-> suggestion]

\* --------------------------------------------------------- fetchWithRetry

\* What one fetch attempt can meet: the request rejects with an error, or a response
\* arrives, OK or not, with a body.
Rejected(e) == [kind |-> "rejected", err |-> e, ok |-> FALSE, body |-> <<>>]
Responded(ok, body) ==
  [kind |-> "response", err |-> Err("", <<>>), ok |-> ok, body |-> body]

\* Connection reset, DNS failure, connect timeout, undici's network failure and the
\* abort raised by the 10 second timer.
ConnectionErrors ==
  {Err("Error", <<"read", "ECONNRESET">>),
   Err("Error", <<"getaddrinfo", "ENOTFOUND">>),
   Err("Error", <<"connect", "ETIMEDOUT">>),
   Err("TypeError", <<"fetch", "failed">>),
   Err("AbortError", <<"This", "operation", "was", "aborted">>)}

\* Line 64: new Error(`HTTP ${status}: ${statusText}`).
httpError == Err("Error", <<"HTTP", "500", "Internal", "Server", "Error">>)

\* Mutant of isConnectionError: an aborted request is not seen as a connection error.
isConnectionErrorNoAbort(error) ==
  \/ msgIncludes(error.message, "ECONNRESET")
  \/ msgIncludes(error.message, "ENOTFOUND")
  \/ msgIncludes(error.message, "ETIMEDOUT")
  \/ msgIncludes(error.message, "fetch")

\* Lines 68-74.
isConnectionError(error) ==
  \/ msgIncludes(error.message, "ECONNRESET")
  \/ msgIncludes(error.message, "ENOTFOUND")
  \/ msgIncludes(error.message, "ETIMEDOUT")
  \/ msgIncludes(error.message, "fetch")
  \/ error.name = "AbortError"

\* Mutant of isLastAttempt: no attempt is the last one.
isLastAttemptNever(n) == FALSE

\* Line 67.
isLastAttempt(n) == n = maxRetries

\* Line 77.
failedAfter(error) ==
  Err("Error",
      <<"Failed", "after", numStr(maxRetries), "attempts.", "Last", "error:">>
        \o error.message)

\* Line 91.
unexpectedError == Err("Error", <<"Unexpected", "error", "in", "fetchWithRetry">>)

\* Mutant of attemptStep: the test of line 59 is gone and every response is
\* returned.
attemptStepReturnsAny(n, outcome) ==
  IF outcome.kind = "response"
  THEN [next |-> "return", err |-> Err("", <<>>)]
  ELSE IF isLastAttempt(n)
       THEN [next |-> "throw", err |-> failedAfter(outcome.err)]
       ELSE IF isConnectionError(outcome.err)
            THEN [next |-> "retry", err |-> Err("", <<>>)]
            ELSE [next |-> "throw", err |-> outcome.err]

\* Lines 45-88: one pass of the loop body once the fetch of attempt n has settled:
\* return the response, wait and retry, or throw to the caller.
attemptStep(n, outcome) ==
  IF outcome.kind = "response" /\ outcome.ok
  THEN [next |-> "return", err |-> Err("", <<>>)]
  ELSE LET error == IF outcome.kind = "response" THEN httpError ELSE outcome.err
       IN IF isLastAttempt(n)
          THEN [next |-> "throw", err |-> failedAfter(error)]
          ELSE IF isConnectionError(error)
               THEN [next |-> "retry", err |-> Err("", <<>>)]
               ELSE [next |-> "throw", err |-> error]

\* ------------------------------------------------------- response bodies

\* A response body: text that JSON.parse rejects, or a JSON value whose data field
\* is missing, is not an array, or is an array of trades.
Body(parses, shape, data) == [parses |-> parses, shape |-> shape, data |-> data]

\* response.json() followed by the shape test of lines 169, 225 and 248.
readJson(body) == IF body.parses THEN Value(body) ELSE Throw(SyntaxErr)

hasDataArray(body) == body.shape = "array"

\* Lines 223-229 and 246-252: the records of a single-endpoint response.
readRecords(fetched) ==
  IF fetched.threw THEN fetched
  ELSE LET json == readJson(fetched.val)
       IN IF json.threw THEN json
          ELSE IF ~hasDataArray(json.val) THEN Throw(InvalidFormatErr)
          ELSE Value(json.val.data)

\* Lines 162-190: what one chain adds to allResults; every error is caught and
\* logged, and a body without a data array adds nothing.
chainResults(token, fetched) ==
  IF fetched.threw THEN <<>>
  ELSE LET json == readJson(fetched.val)
       IN IF json.threw \/ ~hasDataArray(json.val) THEN <<>>
          ELSE SelectSeq(json.val.data, LAMBDA t : tokenMatches(t, token))

\* ---------------------------------------------------------------- execute

\* Lines 217, 232, 240: the branch execute takes.
pathOf(q) ==
  IF TruthyStr(q.chain) THEN "chain"
  ELSE IF TruthySym(q.token) /\ ~TruthySym(q.pair) THEN "search"
  ELSE "multi"

\* Mutant of firstUrl: the multi-chain endpoint is fetched for a named chain too.
firstUrlIgnoresChain(q) ==
  IF pathOf(q) = "search" THEN chainUrl(supportedChains[1]) ELSE multiUrl

\* The first url execute fetches.
firstUrl(q) ==
  IF pathOf(q) = "chain" THEN chainUrl(q.chain)
  ELSE IF pathOf(q) = "search" THEN chainUrl(supportedChains[1])
  ELSE multiUrl

\* What the caller of execute gets: the value execute returns, or an exception.
Returned(v) == [kind |-> "returned", value |-> v]
Raised(e) == [kind |-> "threw", value |-> e]
Pending == [kind |-> "none", value |-> <<>>]

\* The upstream of a single call is not scripted.
NoStub == [flaky |-> <<>>, mode |-> "none"]

\* Mutant of catchExecute: the error leaves execute.
catchExecuteRethrows(q, error) == Raised(error)

\* Lines 208 and 365-375: the try/catch around the body of execute.
catchExecute(q, error) == Returned(failureEnvelope(q, error))

settleExecute(q, computed) ==
  IF computed.threw THEN catchExecute(q, computed.err)
  ELSE Returned(computed.val)

\* ------------------------------------------------------------ input sets

symAb == <<"A", "b">>
symC == <<"C">>
symB == <<"B">>
symCab == <<"c", "a", "b">>
typeSell == <<"S", "e", "l", "l">>
typeBuy == <<"B", "u", "y">>

\* Trades the upstream can serve: a well-formed one, one without a chain, and one
\* without symbol1, transType and tnxvalue.
tradeA == Trade(symAb, symC, typeSell, 3, "1970-01-01T00:00:02Z", "base")
tradeB == Trade(symC, symB, typeBuy, 1, "1970-01-01T00:00:03Z", NoStr)
tradeC == Trade(symCab, NoSym, NoSym, NoNum, "1970-01-01T00:00:01Z", "ethereum")

TradeUniverse == {tradeA, tradeB, tradeC}

BoundedSeq(S, n) == UNION {[1..k -> S] : k \in 0..n}

Bodies(n) ==
  {Body(FALSE, "none", <<>>), Body(TRUE, "missing", <<>>),
   Body(TRUE, "notarray", <<>>)}
  \cup {Body(TRUE, "array", d) : d \in BoundedSeq(TradeUniverse, n)}

Outcomes(n) ==
  {Rejected(e) : e \in ConnectionErrors}
  \cup {Responded(FALSE, Body(TRUE, "missing", <<>>))}
  \cup {Responded(TRUE, b) : b \in Bodies(n)}

\* How the upstream answered an attempt, whatever the code makes of it: a transient
\* network failure, a non-2xx status, a 2xx response whose body is not
\* { data: [...] }, or a 2xx response with records.
outcomeKind(o) ==
  IF o.kind = "rejected" THEN "transient"
  ELSE IF ~o.ok THEN "http"
  ELSE IF o.body.parses /\ o.body.shape = "array" THEN "ok"
  ELSE "badbody"

tokenAb == <<"a", "B">>
pairAbC == <<"A", "B", "/", "c">>
pairCB == <<"c", "/", "B">>

Queries ==
  {Query(c, t, p, o[1], o[2], o[3]) :
     c \in {NoStr} \cup ChainSet,
     t \in {NoSym, tokenAb},
     p \in {NoSym, pairAbC, pairCB},
     o \in {<<NoNum, NoNum, NoSym>>,
            <<2, NoNum, <<"s", "e", "l", "l">> >>,
            <<NoNum, 1, NoSym>>}}

\* ------------------------------------------------------------------ state

VARIABLES
  query,          \* the arguments of the call of execute
  pc,             \* "start", "fetching", "backoff", "done"
  path,           \* the branch execute took: "chain", "search", "multi"
  idx,            \* searchTokenAcrossChains: position in supportedChains
  url,            \* fetchWithRetry: the url being fetched
  attempt,        \* fetchWithRetry: the loop counter
  delay,          \* fetchWithRetry: the backoff delay in ms
  allResults,     \* searchTokenAcrossChains: allResults
  chainsChecked,  \* chainsChecked of searchTokenAcrossChains and of execute
  fetched,        \* execute: results as line 256 logs it, before the filters
  response,       \* what the caller of execute got
  requested,      \* history: the urls fetch was called with
  sequences,      \* history: fetchWithRetry calls per url
  watch,          \* history: one url, any of them, followed attempt by attempt
  watchIssued,    \* history: fetch calls against watch
  watchHist,      \* history: how the upstream answered each attempt against watch
  served,         \* history: the trades all urls served, in order
  curFails,       \* history: failed attempts of the running fetchWithRetry
  allExhausted,   \* history: every fetchWithRetry so far failed three attempts
  stub,           \* the scripted upstream of a repeated call, or NoStub
  calls,          \* history: the number of the running call of execute
  first,          \* history: what the caller got from the call before this one
  chartArgs,      \* stockChartTool: the arguments of the call of execute
  chartPc,        \* stockChartTool: the await execute is at, "start" or "done"
  news_results,   \* stockChartTool: news_results
  chartLocals,    \* stockChartTool: message and chartData once the code has run
  chartOut,       \* what the caller of stockChartTool.execute got
  sandboxes,      \* history: sandboxes daytona.create() made
  deleteCalls,    \* history: calls of sandbox.delete()
  toolCall,       \* the exchange tool called, and the method asked of the prediction
  toolPc,         \* "start", "fetching", "fallback" or "done"
  toolCaught,     \* lcxKlineTool: the error its catch holds during the fallback
  toolOut,        \* what the caller of the exchange tool got
  toolFetched,    \* history: how the upstream answered the fetch of the tool
  timers,         \* fetchWithRetry: the timeouts set and neither cleared nor fired
  controller,     \* fetchWithRetry: the AbortController of the running attempt
  sleepLeft,      \* fetchWithRetry: what is left of the sleep of line 82, in ms
  unsteady,       \* the urls whose requests may fail or take time
  fired           \* history: the timeout that fired last, and what it met

chartVars ==
  <<chartArgs, chartPc, news_results, chartLocals, chartOut, sandboxes,
    deleteCalls>>

toolVars == <<toolCall, toolPc, toolCaught, toolOut, toolFetched>>

timeVars == <<timers, controller, sleepLeft, unsteady, fired>>

\* What a specification of the big-swaps tool that leaves time out does not run.
otherVars == <<chartVars, toolVars, timeVars>>

bigSwapsVars ==
  <<query, pc, path, idx, url, attempt, delay, allResults, chainsChecked,
    fetched, response, requested, sequences, watch, watchIssued, watchHist,
    served, curFails, allExhausted, stub, calls, first>>

vars == <<bigSwapsVars, otherVars>>

callVars == <<query, watch, stub, calls, first>>

\* No call of execute is running: nothing is fetched and no local exists yet.
InitCall ==
  /\ pc = "start"
  /\ path = "none"
  /\ idx = 0
  /\ url = <<>>
  /\ attempt = 0
  /\ delay = 0
  /\ allResults = <<>>
  /\ chainsChecked = <<>>
  /\ fetched = <<>>
  /\ response = Pending
  /\ requested = {}
  /\ sequences = [u \in Urls |-> 0]
  /\ watchIssued = 0
  /\ watchHist = <<>>
  /\ served = <<>>
  /\ curFails = 0
  /\ allExhausted = TRUE

\* stockChartTool.execute has not been called.
ChartIdle ==
  /\ chartArgs = <<>>
  /\ chartPc = "start"
  /\ news_results = <<>>
  /\ chartLocals = <<>>
  /\ chartOut = Pending
  /\ sandboxes = 0
  /\ deleteCalls = 0

\* No exchange tool has been called.
ToolIdle ==
  /\ toolCall = <<>>
  /\ toolPc = "start"
  /\ toolCaught = <<>>
  /\ toolOut = Pending
  /\ toolFetched = <<>>

\* No timeout is set and no sleep is running.
TimeIdle ==
  /\ timers = {}
  /\ controller = <<>>
  /\ sleepLeft = 0
  /\ unsteady = {}
  /\ fired = <<>>

\* No tool but the big-swaps tool is called, and time is left out.
OthersIdle == ChartIdle /\ ToolIdle /\ TimeIdle

Init ==
  /\ query \in Queries
  /\ watch \in Urls
  /\ stub = NoStub
  /\ calls = 1
  /\ first = Pending
  /\ InitCall
  /\ OthersIdle

\* Mutant of nextDelay: the delay stays what it was.
nextDelaySame(d) == d

\* Line 83: delay *= 2.
nextDelay(d) == d * 2

\* fetch(url, ...) of line 49 is called.
issueFetch(u) ==
  /\ requested' = requested \cup {u}
  /\ watchIssued' = IF u = watch THEN watchIssued + 1 ELSE watchIssued

\* fetchWithRetry(u) is entered: lines 43-49 up to the first await.
enterFetchWithRetry(u) ==
  /\ url' = u
  /\ attempt' = 1
  /\ delay' = initialDelay
  /\ pc' = "fetching"
  /\ sequences' = [sequences EXCEPT ![u] = @ + 1]
  /\ curFails' = 0
  /\ issueFetch(u)

\* The history of an attempt that has settled with outcome o.
recordOutcome(o) ==
  LET recs == IF outcomeKind(o) = "ok" THEN o.body.data ELSE <<>>
  IN /\ watchHist' = IF url = watch THEN Append(watchHist, outcomeKind(o))
                     ELSE watchHist
     /\ served' = served \o recs

\* Failed attempts of the running fetchWithRetry once outcome o is counted.
failsWith(o) ==
  IF outcomeKind(o) \in {"ok", "badbody"} THEN curFails ELSE curFails + 1

\* Mutant of searchGoesOn: an error of one chain ends the loop.
searchStopsOnError(i, result) == ~result.threw /\ i < Len(supportedChains)

\* Mutant of searchGoesOn: the first chain that answers ends the loop.
searchStopsOnAnswer(i, result) == result.threw /\ i < Len(supportedChains)

\* Line 161 and the catch of lines 187-190: the loop over the chains goes on after
\* chain i whether fetchWithRetry returned or threw.
searchGoesOn(i, result) == i < Len(supportedChains)

\* Lines 222-230, 245-253 and 256-375: fetchWithRetry of the chain endpoint or of the
\* multi-chain endpoint has returned or thrown, and execute runs to its end.
continueSingle(result) ==
  LET records == readRecords(result)
      checked == IF path = "chain" THEN <<query.chain>> ELSE <<"multi-chain">>
  IN /\ chainsChecked' = IF records.threw THEN chainsChecked ELSE checked
     /\ fetched' = IF records.threw THEN fetched ELSE records.val
     /\ response' =
          settleExecute(query,
            IF records.threw THEN records
            ELSE shapeResponse(query, records.val, url, checked))
     /\ pc' = "done"
     /\ UNCHANGED <<idx, url, attempt, delay, allResults, requested, sequences,
                    watchIssued>>

\* Lines 161-194 and 235-238, then 256-375: fetchWithRetry of one chain of the search
\* has returned or thrown; the loop goes on to the next chain, or after the last
\* chain execute runs to its end.
continueSearch(result) ==
  /\ allResults' = allResults \o chainResults(query.token, result)
  /\ chainsChecked' = Append(chainsChecked, supportedChains[idx])
  /\ IF searchGoesOn(idx, result)
     THEN /\ idx' = idx + 1
          /\ enterFetchWithRetry(chainUrl(supportedChains[idx + 1]))
          /\ UNCHANGED <<fetched, response>>
     ELSE /\ pc' = "done"
          /\ fetched' = allResults'
          /\ response' =
               settleExecute(query,
                 shapeResponse(query, allResults', searchUrl, chainsChecked'))
          /\ UNCHANGED <<idx, url, attempt, delay, requested, sequences,
                         watchIssued>>

\* fetchWithRetry ends with result after fails failed attempts.
Continue(result, fails) ==
  /\ IF path = "search" THEN continueSearch(result) ELSE continueSingle(result)
  /\ allExhausted' = (allExhausted /\ fails = 3)
  /\ curFails' = IF pc' = "done" THEN fails ELSE 0

\* Mutant of freshResults: the array outlives the call that filled it.
staleResults == allResults

\* Line 156: const allResults = [] is a local of searchTokenAcrossChains, made anew
\* by each call.
freshResults == <<>>

\* Lines 207-254: execute starts with fresh locals (lines 212-214, 156-157), picks
\* its branch and issues the first fetch.
Start ==
  /\ pc = "start"
  /\ path' = pathOf(query)
  /\ idx' = IF pathOf(query) = "search" THEN 1 ELSE 0
  /\ allResults' = freshResults
  /\ chainsChecked' = <<>>
  /\ fetched' = <<>>
  /\ enterFetchWithRetry(firstUrl(query))
  /\ UNCHANGED <<callVars, response, watchHist, served, allExhausted>>

\* Mutant of AttemptFails: the sleep of line 82 is not awaited, and the next pass of
\* the loop issues its fetch at once.
AttemptFailsNoWait(o) ==
  /\ pc = "fetching"
  /\ attemptStep(attempt, o).next = "retry"
  /\ pc' = "fetching"
  /\ attempt' = attempt + 1
  /\ delay' = nextDelay(delay)
  /\ issueFetch(url)
  /\ curFails' = failsWith(o)
  /\ recordOutcome(o)
  /\ UNCHANGED <<callVars, path, idx, url, allResults, chainsChecked, fetched,
                 response, sequences, allExhausted>>

\* Lines 66-83: an attempt fails with a connection error and attempts remain; the
\* loop waits for the backoff delay.
AttemptFails(o) ==
  /\ pc = "fetching"
  /\ attemptStep(attempt, o).next = "retry"
  /\ pc' = "backoff"
  /\ curFails' = failsWith(o)
  /\ recordOutcome(o)
  /\ UNCHANGED <<callVars, path, idx, url, attempt, delay, allResults,
                 chainsChecked, fetched, response, requested, sequences,
                 watchIssued, allExhausted>>

\* Lines 82-83, 44 and 49: the backoff delay has elapsed; the delay doubles and the
\* next pass of the loop issues its fetch, or the loop ends and line 91 throws.
BackoffElapsed ==
  /\ pc = "backoff"
  /\ IF attempt + 1 <= maxRetries
     THEN /\ delay' = nextDelay(delay)
          /\ attempt' = attempt + 1
          /\ pc' = "fetching"
          /\ issueFetch(url)
          /\ UNCHANGED <<idx, url, allResults, chainsChecked, fetched, response,
                         sequences, curFails, allExhausted>>
     ELSE Continue(Throw(unexpectedError), curFails)
  /\ UNCHANGED <<callVars, path, watchHist, served>>

\* The result of fetchWithRetry when its last attempt settles with outcome o.
fetchResult(o) ==
  IF attemptStep(attempt, o).next = "return" THEN Value(o.body)
  ELSE Throw(attemptStep(attempt, o).err)

\* Lines 59-60, 76-78 and 84-87: an attempt settles and fetchWithRetry returns the
\* response or throws; its caller carries on.
SequenceEnds(o) ==
  /\ pc = "fetching"
  /\ attemptStep(attempt, o).next # "retry"
  /\ recordOutcome(o)
  /\ Continue(fetchResult(o), failsWith(o))
  /\ UNCHANGED <<callVars, path>>

Next ==
  \/ Start /\ UNCHANGED otherVars
  \/ \E o \in Outcomes(MaxRecs - Len(served)) :
       AttemptFails(o) /\ UNCHANGED otherVars
  \/ BackoffElapsed /\ UNCHANGED otherVars
  \/ \E o \in Outcomes(MaxRecs - Len(served)) :
       SequenceEnds(o) /\ UNCHANGED otherVars

Spec == Init /\ [][Next]_vars

\* ------------------------------------------- one answered fetch, many records
\* execute with one endpoint to fetch (a named chain, or the multi-chain endpoint)
\* whose first attempt is answered with up to MaxLen records: the filters, the sort
\* and the limit of lines 262-320 over a wider choice of records and queries.

MaxLen == 3

\* Two more well-formed trades: the symbols of pairAbC the other way round and in
\* another case, at the time of tradeB; and a symbol that contains "ab" without
\* being it, earlier than both.
tradeD == Trade(<<"c">>, <<"A", "B">>, typeBuy, 2, "1970-01-01T00:00:03Z", "base")
tradeE == Trade(symCab, symC, typeSell, 5, "1970-01-01T00:00:01Z", "ethereum")

PipelineTrades == {tradeA, tradeB, tradeC, tradeD, tradeE}

\* The falsy minimum 0 and the non-positive limits are each taken on their own,
\* without the other filters on top.
PipelineQueries ==
  {q \in {Query(c, t, p, m, l, tt) :
            c \in {NoStr, "base"},
            t \in {NoSym, tokenAb},
            p \in {NoSym, pairAbC, pairCB},
            m \in {NoNum, 0, 2},
            l \in {NoNum, 0 - 1, 0, 1, 2},
            tt \in {NoSym, <<"s", "e", "l", "l">>}} :
     /\ TruthyStr(q.chain) \/ ~TruthySym(q.token) \/ TruthySym(q.pair)
     /\ q.minValue = 0 => (q.limit = NoNum /\ q.tradeType = NoSym)
     /\ (q.limit # NoNum /\ q.limit <= 0) => (q.minValue = NoNum /\ q.tradeType = NoSym)}

InitPipeline ==
  /\ query \in PipelineQueries
  /\ watch = multiUrl
  /\ stub = NoStub
  /\ calls = 1
  /\ first = Pending
  /\ InitCall
  /\ OthersIdle

\* The first attempt is answered 200 with { data: [...] }.
Answers ==
  \E d \in BoundedSeq(PipelineTrades, MaxLen) :
    SequenceEnds(Responded(TRUE, Body(TRUE, "array", d)))

NextPipeline ==
  \/ Start /\ UNCHANGED otherVars
  \/ Answers /\ UNCHANGED otherVars

SpecPipeline == InitPipeline /\ [][NextPipeline]_vars

\* ------------------------------------------- two calls, a scripted upstream
\* execute called twice with the same arguments against an upstream that answers a
\* request by its url and by the number of requests of the sequence that failed
\* before it, and by nothing else.

StubModes == {"steady", "once", "twice", "exhausted", "http", "badbody"}

Stubs == {[flaky |-> u, mode |-> m] : u \in Urls, m \in StubModes}

\* Two trades of the token aB as the endpoint of one chain serves them: without the
\* chain field, and with it.
tradeF == Trade(symB, symAb, typeSell, 4, "1970-01-01T00:00:03Z", NoStr)
tradeH == Trade(symAb, symB, typeBuy, 4, "1970-01-01T00:00:01Z", "ethereum")

\* The records url u serves when it serves records: the endpoint of a chain serves
\* trades of that chain, with the chain field or without it.
stubRecords(u) ==
  IF u = multiUrl THEN <<tradeB, tradeA>>
  ELSE IF u = chainUrl("ethereum") THEN <<tradeH>>
  ELSE IF u = chainUrl("base") THEN <<tradeF, tradeA>>
  ELSE <<>>

\* The answer of the scripted upstream st to a request of url u after fails failed
\* requests of the same sequence.
stubOutcome(st, u, fails) ==
  LET reset == Rejected(Err("Error", <<"read", "ECONNRESET">>))
      records == Responded(TRUE, Body(TRUE, "array", stubRecords(u)))
  IN IF u # st.flaky \/ st.mode = "steady" THEN records
     ELSE IF st.mode = "once" THEN (IF fails < 1 THEN reset ELSE records)
     ELSE IF st.mode = "twice" THEN (IF fails < 2 THEN reset ELSE records)
     ELSE IF st.mode = "exhausted" THEN reset
     ELSE IF st.mode = "http" THEN Responded(FALSE, Body(TRUE, "missing", <<>>))
     ELSE Responded(TRUE, Body(TRUE, "missing", <<>>))

InitTwice ==
  /\ query \in Queries
  /\ watch = multiUrl
  /\ stub \in Stubs
  /\ calls = 1
  /\ first = Pending
  /\ InitCall
  /\ OthersIdle

StubAttemptFails == AttemptFails(stubOutcome(stub, url, curFails))

StubSequenceEnds == SequenceEnds(stubOutcome(stub, url, curFails))

\* execute has returned and is called again with the same arguments. The locals of
\* the call that ended are gone; nothing here gives them a value, Start does.
CallAgain ==
  /\ pc = "done"
  /\ calls = 1
  /\ calls' = 2
  /\ first' = response
  /\ response' = Pending
  /\ pc' = "start"
  /\ requested' = {}
  /\ sequences' = [u \in Urls |-> 0]
  /\ watchIssued' = 0
  /\ watchHist' = <<>>
  /\ served' = <<>>
  /\ curFails' = 0
  /\ allExhausted' = TRUE
  /\ UNCHANGED <<query, watch, stub, path, idx, url, attempt, delay, allResults,
                 chainsChecked, fetched>>

NextTwice ==
  \/ Start /\ UNCHANGED otherVars
  \/ StubAttemptFails /\ UNCHANGED otherVars
  \/ BackoffElapsed /\ UNCHANGED otherVars
  \/ StubSequenceEnds /\ UNCHANGED otherVars
  \/ CallAgain /\ UNCHANGED otherVars

SpecTwice == InitTwice /\ [][NextTwice]_vars

\* ------------------------------------------------- the timeout of an attempt
\* fetchWithRetry with the time the timeouts and the sleeps take. A timeout holds
\* the time left until it fires; time passes from one deadline to the next, and a
\* request settles at any of these moments or is aborted. The requests of some
\* urls fail or take time, those of the others are answered at once.

requestTimeout == 10000

\* Mutant of newController: one AbortController serves every attempt.
newControllerShared(of) == <<"shared">>

\* Line 46: new AbortController() makes a controller that belongs to the attempt
\* that made it and to no other.
newController(of) == of

\* The timeout of line 47 as set by attempt of, to abort controller ctl.
Timeout(ctl, of, left) == [ctl |-> ctl, of |-> of, left |-> left]

\* The attempt that is running: the url and the loop counter.
thisAttempt == <<url, attempt>>

\* Mutant of setTimeouts: no attempt sets a timeout.
setNoTimeouts(kept) ==
  /\ timers' = kept
  /\ controller' =
       IF pc' = "fetching" THEN newController(<<url', attempt'>>) ELSE <<>>

\* Lines 46-49: when the step issues a fetch, a controller is made for it and a
\* timeout is set to abort that controller; kept are the timeouts still to fire.
setTimeouts(kept) ==
  /\ timers' =
       IF pc' = "fetching"
       THEN kept \cup {Timeout(newController(<<url', attempt'>>),
                               <<url', attempt'>>, requestTimeout)}
       ELSE kept
  /\ controller' =
       IF pc' = "fetching" THEN newController(<<url', attempt'>>) ELSE <<>>

\* Line 57: clearTimeout(timeoutId) runs once a response has arrived; a fetch that
\* rejected leaves its timeout running.
clearTimeouts(o) ==
  IF o.kind = "response" THEN {t \in timers : t.of # thisAttempt} ELSE timers

\* Line 82: the sleep of the backoff starts when the step leads into it.
startSleep == sleepLeft' = IF pc' = "backoff" THEN delay ELSE 0

\* What the controller's abort() makes of the fetch it signals.
abortOutcome ==
  Rejected(Err("AbortError", <<"This", "operation", "was", "aborted">>))

answersAtOnce == Responded(TRUE, Body(TRUE, "array", <<>>))

\* What a fetch of url u settles with of its own accord: an empty list of records
\* or, for an unsteady url, a connection error or a status that is not OK.
TimedOutcomes(u) ==
  IF u \in unsteady
  THEN {Rejected(Err("Error", <<"read", "ECONNRESET">>)),
        Responded(FALSE, Body(TRUE, "missing", <<>>)),
        answersAtOnce}
  ELSE {answersAtOnce}

\* The calls whose time is followed: one chain, the search and all chains.
TimedQueries ==
  {Query("base", NoSym, NoSym, NoNum, NoNum, NoSym),
   Query(NoStr, tokenAb, NoSym, NoNum, NoNum, NoSym),
   Query(NoStr, NoSym, NoSym, NoNum, NoNum, NoSym)}

\* The urls that may be unsteady together.
Unsteady ==
  {{}, {multiUrl}, {chainUrl("base")}, {chainUrl("ethereum"), chainUrl("base")},
   {chainUrl("base"), chainUrl("blast")}}

InitTimed ==
  /\ query \in TimedQueries
  /\ watch = firstUrl(query)
  /\ stub = NoStub
  /\ calls = 1
  /\ first = Pending
  /\ InitCall
  /\ ChartIdle
  /\ ToolIdle
  /\ timers = {}
  /\ controller = <<>>
  /\ sleepLeft = 0
  /\ unsteady \in Unsteady
  /\ fired = <<>>

\* What the big-swaps tool leaves alone.
exceptBigSwaps == <<chartVars, toolVars>>

\* execute starts: the first fetch is issued and its timeout set.
TimedStart ==
  /\ Start
  /\ setTimeouts(timers)
  /\ startSleep
  /\ UNCHANGED <<unsteady, fired>>

\* The fetch settles of its own accord and the loop goes into the backoff.
TimedAttemptFails(o) ==
  /\ AttemptFails(o)
  /\ setTimeouts(clearTimeouts(o))
  /\ startSleep
  /\ UNCHANGED <<unsteady, fired>>

\* The sleep of the backoff is over and the next attempt issues its fetch.
TimedBackoffElapsed ==
  /\ sleepLeft = 0
  /\ BackoffElapsed
  /\ setTimeouts(timers)
  /\ startSleep
  /\ UNCHANGED <<unsteady, fired>>

\* The fetch settles of its own accord and fetchWithRetry returns or throws.
TimedSequenceEnds(o) ==
  /\ SequenceEnds(o)
  /\ setTimeouts(clearTimeouts(o))
  /\ startSleep
  /\ UNCHANGED <<unsteady, fired>>

\* What became of a timeout that fired: the attempt that set it, the attempt whose
\* fetch was in flight then (<<>>: none), and whether that fetch was aborted.
Firing(t, hit) ==
  [of |-> t.of,
   during |-> IF pc = "fetching" THEN thisAttempt ELSE <<>>,
   aborted |-> hit]

\* Line 47: a timeout fires and aborts its controller, the one of the fetch in
\* flight; the fetch rejects with an AbortError and the catch of line 66 runs.
TimeoutAborts(t) ==
  /\ t \in timers
  /\ t.left = 0
  /\ pc = "fetching"
  /\ t.ctl = controller
  /\ AttemptFails(abortOutcome) \/ SequenceEnds(abortOutcome)
  /\ setTimeouts(timers \ {t})
  /\ startSleep
  /\ fired' = <<Firing(t, TRUE)>>
  /\ UNCHANGED unsteady

\* Line 47: a timeout fires and aborts its controller, whose fetch has settled
\* before; nothing comes of it.
TimeoutFiresLate(t) ==
  /\ t \in timers
  /\ t.left = 0
  /\ ~(pc = "fetching" /\ t.ctl = controller)
  /\ timers' = timers \ {t}
  /\ fired' = <<Firing(t, FALSE)>>
  /\ UNCHANGED <<bigSwapsVars, controller, sleepLeft, unsteady>>

\* The deadlines ahead: of the timeouts, and of the sleep when one is running.
deadlines ==
  {t.left : t \in timers} \cup (IF pc = "backoff" THEN {sleepLeft} ELSE {})

\* Time passes up to the next deadline while execute sleeps or waits for an
\* unsteady url.
TimePasses ==
  /\ pc = "backoff" \/ (pc = "fetching" /\ url \in unsteady)
  /\ deadlines # {}
  /\ \A d \in deadlines : d > 0
  /\ LET step == CHOOSE d \in deadlines : \A e \in deadlines : d <= e
     IN /\ timers' = {[t EXCEPT !.left = @ - step] : t \in timers}
        /\ sleepLeft' = IF pc = "backoff" THEN sleepLeft - step ELSE sleepLeft
  /\ UNCHANGED <<bigSwapsVars, controller, unsteady, fired>>

NextTimed ==
  \/ TimedStart /\ UNCHANGED exceptBigSwaps
  \/ \E o \in TimedOutcomes(url) :
       TimedAttemptFails(o) /\ UNCHANGED exceptBigSwaps
  \/ TimedBackoffElapsed /\ UNCHANGED exceptBigSwaps
  \/ \E o \in TimedOutcomes(url) :
       TimedSequenceEnds(o) /\ UNCHANGED exceptBigSwaps
  \/ \E t \in timers : TimeoutAborts(t) /\ UNCHANGED exceptBigSwaps
  \/ \E t \in timers : TimeoutFiresLate(t) /\ UNCHANGED exceptBigSwaps
  \/ TimePasses /\ UNCHANGED exceptBigSwaps

SpecTimed == InitTimed /\ [][NextTimed]_vars

\* The steps that are the program's and the clock's: execute starts, a sleep that
\* is over ends, time passes and a timeout that is due fires.
Clockwork ==
  \/ TimedStart /\ UNCHANGED exceptBigSwaps
  \/ TimedBackoffElapsed /\ UNCHANGED exceptBigSwaps
  \/ \E t \in timers : TimeoutAborts(t) /\ UNCHANGED exceptBigSwaps
  \/ \E t \in timers : TimeoutFiresLate(t) /\ UNCHANGED exceptBigSwaps
  \/ TimePasses /\ UNCHANGED exceptBigSwaps

\* A url that is not unsteady answers.
SteadyAnswers ==
  /\ url \notin unsteady
  /\ TimedSequenceEnds(answersAtOnce)
  /\ UNCHANGED exceptBigSwaps

\* The program and the clock do not stop and a steady url answers; a request of an
\* unsteady url may stay unanswered for ever.
FairTimed == SpecTimed /\ WF_vars(Clockwork) /\ WF_vars(SteadyAnswers)

\* ------------------------------------------------------- the stock chart tool
\* stockChartTool.execute: the news searches, the title of untitled reports, the
\* sandbox, the code run and the reading of its output. The output of the code run
\* is a sequence of tokens: words, blanks, the two markers and a text in braces.

\* An array argument that was not given.
NoArr == <<"#undefined">>

\* Lines 11-36: CURRENCY_SYMBOLS, five of its entries; NoStr for a key it lacks.
CURRENCY_SYMBOLS(currency) ==
  CASE currency = "USD" -> "$"
    [] currency = "ARS" -> "$"
    [] currency = "ZAR" -> "R"
    [] currency = "AUD" -> "A$"
    [] currency = "CAD" -> "C$"
    [] OTHER -> NoStr

\* Lines 93-96: the sign of each currency given, or the currency itself when the
\* table has none; a call without currencies has USD for every stock symbol.
formattedCurrencySymbols(args) ==
  LET given == IF args.currency_symbols # NoArr THEN args.currency_symbols
               ELSE [i \in DOMAIN args.stock_symbols |-> "USD"]
  IN [i \in DOMAIN given |->
        IF TruthyStr(CURRENCY_SYMBOLS(given[i])) THEN CURRENCY_SYMBOLS(given[i])
        ELSE given[i]]

\* Lines 102-125: two searches per news query, topic finance and then topic news.
searchPromises(news_queries) ==
  [k \in 1..(2 * Len(news_queries)) |->
     [query |-> news_queries[(k + 1) \div 2],
      topic |-> IF k % 2 = 1 THEN "finance" ELSE "news"]]

\* A search that settled: rejected, or resolved with an object that has a results
\* field or lacks it.
Search(rejected, hasResults, results) ==
  [rejected |-> rejected, hasResults |-> hasResults, results |-> results]

\* Lines 128-133 and 180-183: a rejected search counts as one with no result.
caught(search) ==
  IF search.rejected THEN Search(FALSE, TRUE, <<>>) ELSE search

\* Lines 142-146 and 194-198: the items whose url was not seen before, in order.
RECURSIVE keepNew(_, _)
keepNew(items, urlSet) ==
  IF items = <<>> THEN <<>>
  ELSE IF Head(items).url \in urlSet THEN keepNew(Tail(items), urlSet)
  ELSE <<Head(items)>> \o keepNew(Tail(items), urlSet \cup {Head(items).url})

urlsOf(items) == {items[i].url : i \in DOMAIN items}

\* One processed result of lines 147-154 and of lines 199-206.
NewsResult(title, link, content, category, q) ==
  [title |-> title, url |-> link, content |-> content, category |-> category,
   query |-> q]

\* Lines 136-163: the groups of the searches from the k-th on; a search without a
\* results field is skipped, and so is a group that kept no result.
RECURSIVE groupTavily(_, _, _, _)
groupTavily(promises, searchResults, k, urlSet) ==
  IF k > Len(promises) THEN <<>>
  ELSE LET result == caught(searchResults[k])
           kept == IF ~result.hasResults THEN <<>>
                   ELSE keepNew(result.results, urlSet)
           processedResults ==
             [i \in DOMAIN kept |->
                NewsResult(kept[i].title, kept[i].url, kept[i].content,
                           promises[k].topic, promises[k].query)]
           group == [query |-> promises[k].query, topic |-> promises[k].topic,
                     results |-> processedResults]
       IN (IF Len(processedResults) > 0 THEN <<group>> ELSE <<>>)
            \o groupTavily(promises, searchResults, k + 1,
                           urlSet \cup urlsOf(kept))

\* String.prototype.trim of a title: the title of blanks is the empty title.
trimTitle(title) == IF title = " " THEN "" ELSE title

\* Lines 220-234: a result without a title gets the title the model generated, or
\* "<symbol> Financial Report" when generateObject failed.
titled(result, generated) ==
  IF ~TruthyStr(result.title) \/ trimTitle(result.title) = ""
  THEN [result EXCEPT !.title =
          IF generated THEN "generated title"
          ELSE result.query \o " Financial Report"]
  ELSE result

\* Lines 189-237: the groups of the Exa searches from the k-th on, one per stock
\* symbol; a search without results is skipped.
RECURSIVE groupExa(_, _, _, _, _)
groupExa(stock_symbols, exaSearchResults, generated, k, exaUrlSet) ==
  IF k > Len(stock_symbols) THEN <<>>
  ELSE LET result == caught(exaSearchResults[k])
           kept == IF ~result.hasResults THEN <<>>
                   ELSE keepNew(result.results, exaUrlSet)
           processedResults ==
             [i \in DOMAIN kept |->
                titled(NewsResult(IF TruthyStr(kept[i].title)
                                  THEN kept[i].title ELSE "",
                                  kept[i].url,
                                  IF TruthyStr(kept[i].summary)
                                  THEN kept[i].summary ELSE "",
                                  "financial", stock_symbols[k]),
                       generated[k])]
           group == [query |-> stock_symbols[k], topic |-> "financial",
                     results |-> processedResults]
       IN (IF Len(processedResults) > 0 THEN <<group>> ELSE <<>>)
            \o groupExa(stock_symbols, exaSearchResults, generated, k + 1,
                        exaUrlSet \cup urlsOf(kept))

\* What sandbox.process.codeRun resolved with.
Execution(result, stdout, exitCode) ==
  [result |-> result, stdout |-> stdout, exitCode |-> exitCode]

\* '' + value: an undefined value reads "undefined".
textOf(value) == IF value = NoSym THEN <<"undefined">> ELSE value

\* Lines 332-342: the message is the result when there is one, else the stdout.
messageOf(execution) ==
  IF execution.result = execution.stdout THEN textOf(execution.result)
  ELSE IF TruthySym(execution.result) THEN execution.result
  ELSE IF TruthySym(execution.stdout) THEN execution.stdout
  ELSE textOf(execution.result)

isBlank(token) == token = " "

isBraces(token) == token \in {"{json}", "{bad}"}

\* Line 350: /CHART_DATA_START\s*(\{.*?\})\s*CHART_DATA_END/s: the text in braces
\* between the two markers, blanks aside; <<>> when nothing matches.
chartMatch(result) ==
  LET hits == {<<i, j, k>> \in (DOMAIN result) \X (DOMAIN result) \X
                                (DOMAIN result) :
                 /\ i < j /\ j < k
                 /\ result[i] = "CHART_DATA_START"
                 /\ isBraces(result[j])
                 /\ result[k] = "CHART_DATA_END"
                 /\ \A m \in (i + 1)..(j - 1) : isBlank(result[m])
                 /\ \A m \in (j + 1)..(k - 1) : isBlank(result[m])}
  IN IF hits = {} THEN <<>>
     ELSE LET first3 == CHOOSE h \in hits : \A g \in hits : h[1] <= g[1]
          IN <<result[first3[2]]>>

\* JSON.parse of the text in braces.
parseChart(text) == IF text = "{json}" THEN Value("chart") ELSE Throw(SyntaxErr)

\* Lines 348-358: chartData, undefined (NoStr) unless the result holds the start
\* marker, the pattern matches and the match parses.
chartDataOf(execution) ==
  IF TruthySym(execution.result)
     /\ msgIncludes(execution.result, "CHART_DATA_START")
     /\ chartMatch(execution.result) # <<>>
     /\ ~parseChart(chartMatch(execution.result)[1]).threw
  THEN parseChart(chartMatch(execution.result)[1]).val
  ELSE NoStr

\* The arguments of the calls of the chart tool.
ChartArgs ==
  {[stock_symbols |-> s, currency_symbols |-> c, news_queries |-> n] :
     s \in {<<"AAPL">>, <<"AAPL", "MSFT">>},
     c \in {NoArr, <<"AUD", "XYZ">>},
     n \in {<<>>, <<"apple">>}}

TavilyItems ==
  {[url |-> u, title |-> "headline", content |-> "text"] : u \in {"u1", "u2"}}

\* What one Tavily search settles with.
TavilySearches ==
  {Search(TRUE, FALSE, <<>>), Search(FALSE, FALSE, <<>>),
   Search(FALSE, TRUE, <<>>)}
    \cup {Search(FALSE, TRUE, <<i>>) : i \in TavilyItems}

ExaItems ==
  {[url |-> "r1", title |-> t, summary |-> "10-K"] :
     t \in {NoStr, " ", "annual report"}}

\* What one Exa search settles with.
ExaSearches ==
  {Search(TRUE, FALSE, <<>>), Search(FALSE, TRUE, <<>>)}
    \cup {Search(FALSE, TRUE, <<i>>) : i \in ExaItems}

\* What the code run resolves with.
Executions ==
  {Execution(r, o, x) :
     r \in {NoSym, <<>>, <<" ", "out", " ">>,
            <<"out", "CHART_DATA_START", " ", "{json}", "CHART_DATA_END">>,
            <<"CHART_DATA_START", "{bad}", "CHART_DATA_END">>,
            <<"CHART_DATA_START", "{json}">>},
     o \in {NoSym, <<"log">>},
     x \in {0, 1}}
    \cup {Execution(<<"out">>, <<"out">>, 0)}

\* The big-swaps tool is not called.
BigSwapsIdle ==
  /\ query = Query(NoStr, NoSym, NoSym, NoNum, NoNum, NoSym)
  /\ watch = multiUrl
  /\ stub = NoStub
  /\ calls = 1
  /\ first = Pending
  /\ InitCall
  /\ TimeIdle

InitChart ==
  /\ BigSwapsIdle
  /\ ToolIdle
  /\ chartArgs \in ChartArgs
  /\ chartPc = "start"
  /\ news_results = <<>>
  /\ chartLocals = <<>>
  /\ chartOut = Pending
  /\ sandboxes = 0
  /\ deleteCalls = 0

\* Lines 86-125: execute is called and starts the Tavily searches.
ChartStart ==
  /\ chartPc = "start"
  /\ chartPc' = "tavily"
  /\ UNCHANGED <<chartArgs, news_results, chartLocals, chartOut, sandboxes,
                 deleteCalls>>

\* Lines 127-184: the Tavily searches have settled; their results are grouped and
\* the Exa searches start.
TavilySettles(searchResults) ==
  /\ chartPc = "tavily"
  /\ news_results' =
       groupTavily(searchPromises(chartArgs.news_queries), searchResults, 1, {})
  /\ chartPc' = "exa"
  /\ UNCHANGED <<chartArgs, chartLocals, chartOut, sandboxes, deleteCalls>>

\* Lines 165-329: the Exa searches have settled (or the Exa client threw); their
\* groups, untitled results titled, are added to the news, the code is written and
\* daytona.create() is called.
ExaSettles(threw, exaSearchResults, generated) ==
  /\ chartPc = "exa"
  /\ news_results' =
       IF threw THEN news_results
       ELSE news_results
              \o groupExa(chartArgs.stock_symbols, exaSearchResults, generated,
                          1, {})
  /\ chartPc' = "creating"
  /\ UNCHANGED <<chartArgs, chartLocals, chartOut, sandboxes, deleteCalls>>

daytonaError == Err("DaytonaError", <<"request", "failed">>)

\* Lines 329-331: daytona.create() settles; with a sandbox the code run starts,
\* without one execute throws.
CreateSettles(resolved) ==
  /\ chartPc = "creating"
  /\ IF resolved
     THEN /\ sandboxes' = sandboxes + 1
          /\ chartPc' = "running"
          /\ UNCHANGED chartOut
     ELSE /\ chartOut' = Raised(daytonaError)
          /\ chartPc' = "done"
          /\ UNCHANGED sandboxes
  /\ UNCHANGED <<chartArgs, news_results, chartLocals, deleteCalls>>

\* Lines 331-362: the code run resolved with an execution; the message and the
\* chart are read from it and sandbox.delete() is called.
CodeRunResolves(execution) ==
  /\ chartPc = "running"
  /\ chartLocals' = [message |-> messageOf(execution),
                     chartData |-> chartDataOf(execution)]
  /\ deleteCalls' = deleteCalls + 1
  /\ chartPc' = "deleting"
  /\ UNCHANGED <<chartArgs, news_results, chartOut, sandboxes>>

\* Line 331: the code run rejected; nothing catches it and execute throws.
CodeRunRejects ==
  /\ chartPc = "running"
  /\ chartOut' = Raised(daytonaError)
  /\ chartPc' = "done"
  /\ UNCHANGED <<chartArgs, news_results, chartLocals, sandboxes, deleteCalls>>

\* Lines 362-369: sandbox.delete() settles; execute returns, or throws what the
\* delete threw.
DeleteSettles(resolved) ==
  /\ chartPc = "deleting"
  /\ chartOut' =
       IF resolved
       THEN Returned([message |-> trim(chartLocals.message),
                      chart |-> chartLocals.chartData,
                      currency_symbols |-> formattedCurrencySymbols(chartArgs),
                      news_results |-> news_results])
       ELSE Raised(daytonaError)
  /\ chartPc' = "done"
  /\ UNCHANGED <<chartArgs, news_results, chartLocals, sandboxes, deleteCalls>>

\* What the chart tool leaves alone.
exceptChart == <<bigSwapsVars, toolVars, timeVars>>

NextChart ==
  \/ ChartStart /\ UNCHANGED exceptChart
  \/ \E r \in [1..(2 * Len(chartArgs.news_queries)) -> TavilySearches] :
       TavilySettles(r) /\ UNCHANGED exceptChart
  \/ \E t \in BOOLEAN :
       \E r \in [1..Len(chartArgs.stock_symbols) -> ExaSearches] :
         \E g \in [1..Len(chartArgs.stock_symbols) -> BOOLEAN] :
           ExaSettles(t, r, g) /\ UNCHANGED exceptChart
  \/ \E ok \in BOOLEAN : CreateSettles(ok) /\ UNCHANGED exceptChart
  \/ \E e \in Executions : CodeRunResolves(e) /\ UNCHANGED exceptChart
  \/ CodeRunRejects /\ UNCHANGED exceptChart
  \/ \E ok \in BOOLEAN : DeleteSettles(ok) /\ UNCHANGED exceptChart

SpecChart == InitChart /\ [][NextChart]_vars

\* ------------------------------------ the Binance, LCX and prediction tools
\* The tools of binance-tools.ts and lcx-tools.ts and lcxPricePredictionTool: one
\* fetch, the reshaping of its JSON, and the catch that turns an error into an
\* envelope. A JSON value is known as far as the tools look into it: its type, the
\* keys of an object that hold a value, and for an array the keys of each element.

Leaf(type, keys, items) == [type |-> type, keys |-> keys, items |-> items]

Undefined == Leaf("undefined", {}, <<>>)
Null == Leaf("null", {}, <<>>)
Obj(keys) == Leaf("object", keys, <<>>)
Arr(items) == Leaf("array", {}, items)

\* The body of a response: whether it parses as JSON, the value it parses to, and
\* the value of its member data (Undefined when it has none).
JsonBody(parses, root, data) == [parses |-> parses, root |-> root, data |-> data]

\* A member of a null or undefined value cannot be read.
nullish(v) == v.type \in {"null", "undefined"}

\* The truthiness of a JSON value that is no scalar.
truthy(v) == v.type \in {"object", "array"}

isArray(v) == v.type = "array"

RangeErr == Err("RangeError", <<"Invalid", "time", "value">>)

\* The envelope of a call that worked; hollow names the fields of the envelope that
\* came out undefined or NaN.
Success(hollow) ==
  [success |-> TRUE, error |-> NoSym, hollow |-> hollow, note |-> "none"]

\* The envelope of a call that failed, with the message of the error and the kind
\* of suggestion that goes with it.
Failure(message, note) ==
  [success |-> FALSE, error |-> message, hollow |-> {}, note |-> note]

\* binance-tools.ts lines 6-26 and lcx-tools.ts lines 10-34: binanceApiCall and
\* lcxApiCall for a fetch that settled with outcome o; api words the error.
apiCall(api, o) ==
  IF o.kind = "rejected" THEN Throw(o.err)
  ELSE IF ~o.ok THEN Throw(Err("Error", <<api, "API", "error:", "500">>))
  ELSE IF ~o.body.parses THEN Throw(SyntaxErr)
  ELSE Value(o.body)

binanceApiCall(o) == apiCall("Binance", o)

lcxApiCall(o) == apiCall("LCX", o)

\* Reading the members fields of value v into an envelope: a TypeError when v is
\* null or undefined, else the envelope, hollow where v has no such member.
readInto(v, fields) ==
  IF nullish(v) THEN Throw(TypeErr) ELSE Value(Success(fields \ v.keys))

\* The catch of every tool but lcxKlineTool: the message of the error, in an
\* envelope.
caughtEnvelope(result) ==
  IF result.threw THEN Failure(result.err.message, "none") ELSE result.val

\* binance-tools.ts lines 34-51.
binanceTickerTool(o) ==
  LET data == binanceApiCall(o)
  IN caughtEnvelope(IF data.threw THEN data
                    ELSE readInto(data.val.root, {"price"}))

\* binance-tools.ts lines 62-90: data.map throws on anything but an array.
binanceKlinesTool(o) ==
  LET data == binanceApiCall(o)
  IN caughtEnvelope(IF data.threw THEN data
                    ELSE IF ~isArray(data.val.root) THEN Throw(TypeErr)
                    ELSE Value(Success({})))

\* binance-tools.ts lines 100-119.
binanceOrderBookTool(o) ==
  LET data == binanceApiCall(o)
  IN caughtEnvelope(IF data.threw THEN data
                    ELSE readInto(data.val.root,
                                  {"lastUpdateId", "bids", "asks"}))

\* binance-tools.ts lines 129-146: the body is passed on whole, whatever it is.
binanceRecentTradesTool(o) ==
  LET data == binanceApiCall(o)
  IN caughtEnvelope(IF data.threw THEN data ELSE Value(Success({})))

\* binance-tools.ts lines 153-171.
binanceExchangeInfoTool(o) ==
  LET data == binanceApiCall(o)
  IN caughtEnvelope(IF data.threw THEN data
                    ELSE readInto(data.val.root,
                                  {"symbols", "timezone", "serverTime",
                                   "rateLimits", "exchangeFilters"}))

\* lcx-tools.ts line 103 and 267: data.data || data.
dataOrRoot(body) == IF truthy(body.data) THEN body.data ELSE body.root

\* lcx-tools.ts line 119: candle.timestamp || candle.time || candle.date.
hasTimestamp(candle) == candle \cap {"timestamp", "time", "date"} # {}

noKlineData ==
  <<"No", "kline", "data", "available", "for", "this", "pair", "and", "time",
    "range">>

\* lcx-tools.ts lines 58-154: the try block of lcxKlineTool for a fetch that
\* settled with outcome o. It returns an envelope or throws into the catch.
lcxKlineTry(o) ==
  IF o.kind = "rejected" THEN Throw(o.err)
  ELSE IF ~o.ok THEN Throw(Err("Error", <<"LCX", "Kline", "API", "error:", "500">>))
  ELSE IF ~o.body.parses THEN Throw(SyntaxErr)
  ELSE IF nullish(o.body.root) THEN Throw(TypeErr)
  ELSE LET klineData == dataOrRoot(o.body)
       IN IF ~isArray(klineData) \/ Len(klineData.items) = 0
          THEN Value(Failure(noKlineData, "alternative"))
          ELSE IF \E i \in DOMAIN klineData.items :
                    ~hasTimestamp(klineData.items[i])
          THEN Throw(RangeErr)
          ELSE Value(Success({}))

\* lcx-tools.ts lines 159-183: the catch of lcxKlineTool once its fetch of the pairs
\* has settled with outcome o: the message of the error it caught, with the similar
\* pairs or, when they could not be had, without.
lcxKlineCatch(error, o) ==
  LET pairsData == lcxApiCall(o)
      listed == ~pairsData.threw
                /\ ~nullish(pairsData.val.root)
                /\ (~truthy(pairsData.val.data) \/ isArray(pairsData.val.data))
  IN Failure(error.message, IF listed THEN "similar" ELSE "unable")

\* lcx-tools.ts lines 197-247: data.data.buy.map and data.data.sell.map.
lcxOrderBookTool(o) ==
  LET data == lcxApiCall(o)
  IN caughtEnvelope(IF data.threw THEN data
                    ELSE IF nullish(data.val.root) \/ nullish(data.val.data)
                    THEN Throw(TypeErr)
                    ELSE IF ~({"buy", "sell"} \subseteq data.val.data.keys)
                    THEN Throw(TypeErr)
                    ELSE Value(Success({})))

\* lcx-tools.ts lines 273-280: each field of the ticker and the members it is read
\* from, the first that holds a value.
tickerMembers ==
  [lastPrice |-> {"last", "lastPrice", "price", "close"},
   bid |-> {"bid", "buy"},
   ask |-> {"ask", "sell"},
   high |-> {"high", "highest"},
   low |-> {"low", "lowest"},
   volume |-> {"volume", "vol"},
   change |-> {"change", "priceChange"},
   changePercent |-> {"changePercent", "priceChangePercent", "change24h"}]

\* lcx-tools.ts lines 260-293.
lcxTickerTool(o) ==
  LET data == lcxApiCall(o)
  IN caughtEnvelope(
       IF data.threw THEN data
       ELSE IF nullish(data.val.root) THEN Throw(TypeErr)
       ELSE LET tickerData == dataOrRoot(data.val)
            IN Value(Success({f \in DOMAIN tickerMembers :
                                tickerMembers[f] \cap tickerData.keys = {}})))

\* lcx-tools.ts lines 304-337: data.data.reduce.
lcxPairsTool(o) ==
  LET data == lcxApiCall(o)
  IN caughtEnvelope(IF data.threw THEN data
                    ELSE IF nullish(data.val.root) \/ ~isArray(data.val.data)
                    THEN Throw(TypeErr)
                    ELSE Value(Success({})))

\* lcx-tools.ts lines 350-368: pairInfo is data.data, there or not.
lcxPairTool(o) ==
  LET data == lcxApiCall(o)
  IN caughtEnvelope(IF data.threw THEN data
                    ELSE IF nullish(data.val.root) THEN Throw(TypeErr)
                    ELSE Value(Success(IF data.val.data = Undefined
                                       THEN {"pairInfo"} ELSE {})))

\* lcx-tools.ts lines 379-396: data.data and data.data.length.
lcxTickersTool(o) ==
  LET data == lcxApiCall(o)
  IN caughtEnvelope(IF data.threw THEN data
                    ELSE IF nullish(data.val.root) \/ nullish(data.val.data)
                    THEN Throw(TypeErr)
                    ELSE Value(Success(IF isArray(data.val.data) THEN {}
                                       ELSE {"totalTickers"})))

\* lcx-tools.ts lines 410-454: data.data.map, and the date of each trade.
lcxTradesTool(o) ==
  LET data == lcxApiCall(o)
  IN caughtEnvelope(IF data.threw THEN data
                    ELSE IF nullish(data.val.root) \/ ~isArray(data.val.data)
                    THEN Throw(TypeErr)
                    ELSE IF \E i \in DOMAIN data.val.data.items :
                              "timestamp" \notin data.val.data.items[i]
                    THEN Throw(RangeErr)
                    ELSE Value(Success({})))

\* part_001 lines 76-90: getCurrentMarketData returns data.data.
getCurrentMarketData(o) ==
  IF o.kind = "rejected" THEN Throw(o.err)
  ELSE IF ~o.ok
  THEN Throw(Err("Error", <<"Failed", "to", "fetch", "market", "data:", "500">>))
  ELSE IF ~o.body.parses THEN Throw(SyntaxErr)
  ELSE IF nullish(o.body.root) THEN Throw(TypeErr)
  ELSE Value(o.body.data)

\* part_001 lines 93-133: the fields of the technical prediction that come out NaN.
generateTechnicalPrediction(marketData) ==
  IF nullish(marketData) THEN Throw(TypeErr)
  ELSE Value((IF {"lastPrice", "high", "low"} \subseteq marketData.keys
              THEN {} ELSE {"estimatedPrice"})
             \cup (IF "low" \in marketData.keys THEN {} ELSE {"support"})
             \cup (IF "high" \in marketData.keys THEN {} ELSE {"resistance"}))

\* part_001 lines 136-160: the sentiment and the ML prediction are constants.
generatePlaceholderPrediction == Value({})

\* part_001 lines 23-71.
lcxPricePredictionTool(method, o) ==
  LET currentData == getCurrentMarketData(o)
      prediction ==
        IF method \in {"sentiment", "ml"} THEN generatePlaceholderPrediction
        ELSE generateTechnicalPrediction(currentData.val)
  IN IF currentData.threw THEN Failure(currentData.err.message, "ticker")
     ELSE IF prediction.threw THEN Failure(prediction.err.message, "ticker")
     ELSE IF nullish(currentData.val) THEN Failure(TypeErr.message, "ticker")
     ELSE Success(prediction.val
                  \cup (IF "lastPrice" \in currentData.val.keys THEN {}
                        ELSE {"currentPrice"}))

\* The tools, and what each expects of a body: where the payload is (the body
\* itself, its member data, or either), its type, the members an object has and
\* the members each element of an array has.
Shape(at, type, keys, itemKeys) ==
  [at |-> at, type |-> type, keys |-> keys, itemKeys |-> itemKeys]

expectedShape(tool) ==
  CASE tool = "binanceTickerTool" -> Shape("root", "object", {"price"}, {})
    [] tool = "binanceKlinesTool" -> Shape("root", "array", {}, {})
    [] tool = "binanceOrderBookTool" ->
         Shape("root", "object", {"lastUpdateId", "bids", "asks"}, {})
    [] tool = "binanceRecentTradesTool" -> Shape("root", "array", {}, {})
    [] tool = "binanceExchangeInfoTool" ->
         Shape("root", "object",
               {"symbols", "timezone", "serverTime", "rateLimits",
                "exchangeFilters"}, {})
    [] tool = "lcxKlineTool" ->
         Shape("either", "array", {},
               {"timestamp", "open", "high", "low", "close", "volume"})
    [] tool = "lcxOrderBookTool" -> Shape("data", "object", {"buy", "sell"}, {})
    [] tool = "lcxTickerTool" ->
         Shape("either", "object",
               {"last", "bid", "ask", "high", "low", "volume", "change",
                "changePercent"}, {})
    [] tool = "lcxPairsTool" ->
         Shape("data", "array", {}, {"pair", "base", "quote", "status"})
    [] tool = "lcxPairTool" ->
         Shape("data", "object", {"pair", "base", "quote", "status"}, {})
    [] tool = "lcxTickersTool" -> Shape("data", "array", {}, {"pair", "last"})
    [] tool = "lcxTradesTool" ->
         Shape("data", "array", {},
               {"id", "price", "amount", "side", "timestamp"})
    [] tool = "lcxPricePredictionTool" ->
         Shape("data", "object",
               {"lastPrice", "change", "high", "low", "volume"}, {})

Tools ==
  {"binanceTickerTool", "binanceKlinesTool", "binanceOrderBookTool",
   "binanceRecentTradesTool", "binanceExchangeInfoTool", "lcxKlineTool",
   "lcxOrderBookTool", "lcxTickerTool", "lcxPairsTool", "lcxPairTool",
   "lcxTickersTool", "lcxTradesTool", "lcxPricePredictionTool"}

\* The calls of the tools: the prediction tool with each method and with one it
\* does not know, the others without a method.
ToolCalls ==
  {[tool |-> t, method |-> "none"] : t \in Tools \ {"lcxPricePredictionTool"}}
    \cup {[tool |-> "lcxPricePredictionTool", method |-> m] :
            m \in {"technical", "sentiment", "ml", "astrology"}}

\* The values a body or its member data can be for a tool that expects sh.
JsonValues(sh) ==
  {Null, Obj({}), Obj(sh.keys), Arr(<<>>), Arr(<<sh.itemKeys>>),
   Arr(<<sh.itemKeys, sh.itemKeys \ {"timestamp"}>>)}

\* The bodies the upstream may answer a tool that expects sh with.
JsonBodies(sh) ==
  {JsonBody(FALSE, Undefined, Undefined)}
    \cup {JsonBody(TRUE, r, Undefined) : r \in JsonValues(sh)}
    \cup {JsonBody(TRUE, Obj({}), d) : d \in JsonValues(sh)}

\* What the fetch of a tool that expects sh can meet.
ToolOutcomes(sh) ==
  {Rejected(Err("TypeError", <<"fetch", "failed">>)),
   Responded(FALSE, JsonBody(TRUE, Obj({}), Undefined))}
    \cup {Responded(TRUE, b) : b \in JsonBodies(sh)}

InitTools ==
  /\ BigSwapsIdle
  /\ ChartIdle
  /\ toolCall \in ToolCalls
  /\ toolPc = "start"
  /\ toolCaught = <<>>
  /\ toolOut = Pending
  /\ toolFetched = <<>>

\* What the exchange tools leave alone.
exceptTools == <<bigSwapsVars, chartVars, timeVars>>

\* execute of the tool is called and issues its fetch.
ToolStart ==
  /\ toolPc = "start"
  /\ toolPc' = "fetching"
  /\ UNCHANGED <<toolCall, toolCaught, toolOut, toolFetched>>

\* The envelope of a tool other than lcxKlineTool whose fetch settled with o.
executeTool(call, o) ==
  CASE call.tool = "binanceTickerTool" -> binanceTickerTool(o)
    [] call.tool = "binanceKlinesTool" -> binanceKlinesTool(o)
    [] call.tool = "binanceOrderBookTool" -> binanceOrderBookTool(o)
    [] call.tool = "binanceRecentTradesTool" -> binanceRecentTradesTool(o)
    [] call.tool = "binanceExchangeInfoTool" -> binanceExchangeInfoTool(o)
    [] call.tool = "lcxOrderBookTool" -> lcxOrderBookTool(o)
    [] call.tool = "lcxTickerTool" -> lcxTickerTool(o)
    [] call.tool = "lcxPairsTool" -> lcxPairsTool(o)
    [] call.tool = "lcxPairTool" -> lcxPairTool(o)
    [] call.tool = "lcxTickersTool" -> lcxTickersTool(o)
    [] call.tool = "lcxTradesTool" -> lcxTradesTool(o)
    [] call.tool = "lcxPricePredictionTool" ->
         lcxPricePredictionTool(call.method, o)

\* The fetch of a tool other than lcxKlineTool settles and execute returns.
ToolSettles(o) ==
  /\ toolPc = "fetching"
  /\ toolCall.tool # "lcxKlineTool"
  /\ toolFetched' = o
  /\ toolOut' = Returned(executeTool(toolCall, o))
  /\ toolPc' = "done"
  /\ UNCHANGED <<toolCall, toolCaught>>

\* The fetch of lcxKlineTool settles: execute returns what the try block returned,
\* or its catch holds the error and fetches the pairs.
KlineSettles(o) ==
  /\ toolPc = "fetching"
  /\ toolCall.tool = "lcxKlineTool"
  /\ toolFetched' = o
  /\ IF lcxKlineTry(o).threw
     THEN /\ toolCaught' = lcxKlineTry(o).err
          /\ toolPc' = "fallback"
          /\ UNCHANGED toolOut
     ELSE /\ toolOut' = Returned(lcxKlineTry(o).val)
          /\ toolPc' = "done"
          /\ UNCHANGED toolCaught
  /\ UNCHANGED toolCall

\* The fetch of the pairs in the catch of lcxKlineTool settles and execute returns.
FallbackSettles(o) ==
  /\ toolPc = "fallback"
  /\ toolOut' = Returned(lcxKlineCatch(toolCaught, o))
  /\ toolPc' = "done"
  /\ UNCHANGED <<toolCall, toolCaught, toolFetched>>

NextTools ==
  \/ ToolStart /\ UNCHANGED exceptTools
  \/ \E o \in ToolOutcomes(expectedShape(toolCall.tool)) :
       ToolSettles(o) /\ UNCHANGED exceptTools
  \/ \E o \in ToolOutcomes(expectedShape(toolCall.tool)) :
       KlineSettles(o) /\ UNCHANGED exceptTools
  \/ \E o \in ToolOutcomes(expectedShape("lcxPairsTool")) :
       FallbackSettles(o) /\ UNCHANGED exceptTools

SpecTools == InitTools /\ [][NextTools]_vars

\* ------------------------------------------------------------------ claims

Done == pc = "done"

envelope == response.value

succeeded == Done /\ response.kind = "returned" /\ envelope.success

failed == Done /\ response.kind = "returned" /\ ~envelope.success

\* The attempts against watch all failed, and there were three of them.
watchExhausted ==
  /\ Len(watchHist) = 3
  /\ \A i \in 1..3 : watchHist[i] \in {"transient", "http"}

\* The trades of the result, as the upstream served them.
rawData == [i \in DOMAIN envelope.data |-> envelope.data[i].raw]

\* Some symbol of the trade contains the token, whatever the case of the letters.
symbolHasToken(trade, token) ==
  \E s \in {trade.symbol0, trade.symbol1} \ {NoSym} :
    includes(toLowerCase(s), toLowerCase(token))

\* C1: whatever the query and whatever the upstream does (connection errors,
\* aborts, non-OK statuses, unparseable or non-array bodies, trades with missing
\* fields), execute never raises to its caller; once it is done it has returned an
\* envelope with a boolean success, and a failure carries an error message.
C1_NeverThrows ==
  /\ response.kind # "threw"
  /\ Done =>
       /\ response.kind = "returned"
       /\ envelope.success \in BOOLEAN
       /\ ~envelope.success => envelope.error # <<>>

\* C1 witness: a trade without transType or tnxvalue made the body of execute throw
\* after a successful fetch, and the call returned the failure envelope.
C1_Witness ==
  /\ failed
  /\ envelope.error = TypeErr.message
  /\ served # <<>>

\* C2 as stated: a non-2xx answer to an attempt that is not the last is followed by
\* a further attempt against the same url (the sequence is in its backoff wait or
\* fetching again); it never ends the sequence before three attempts are used.
C2_HttpIsRetried ==
  \A n \in 1..2 :
    (Len(watchHist) >= n /\ watchHist[n] = "http") =>
       \/ Len(watchHist) > n
       \/ url = watch /\ pc = "backoff"
       \/ url = watch /\ pc = "fetching" /\ watchIssued > n

\* C3 as stated: when every fetchWithRetry of the call failed three attempts in a
\* row, the call returns success: false with an error message and a suggestion,
\* on the chain path, the multi-chain path and the cross-chain search alike.
C3_TotalFailure ==
  (Done /\ allExhausted) =>
     /\ response.kind = "returned"
     /\ ~envelope.success
     /\ envelope.error # <<>>
     /\ envelope.suggestion # ""

\* The urls a result reports as failed, with a reason: those of its failedSources
\* list if it has one, and the url of a failure envelope.
reportedFailed(r) ==
  (IF "failedSources" \in DOMAIN r
   THEN {f.url : f \in {g \in r.failedSources : g.reason # <<>>}} ELSE {})
  \cup (IF ~r.success /\ r.error # <<>> THEN {r.url} ELSE {})

\* C4 as stated: a url that failed three attempts is reported as failed by the
\* result, with a reason, and none of its records are in the result.
C4_ExhaustedIsReported ==
  (Done /\ response.kind = "returned" /\ watchExhausted) =>
     watch \in reportedFailed(envelope)

\* C5: in the cross-chain search a chain that failed three attempts does not end
\* the call: every one of the seven chains is still fetched, the call returns, and
\* unless a served trade lacks a field the body of execute reads, the result is
\* success: true and holds the trades the other chains served that pass the
\* filters, latest first and cut to the limit.
C5_ExhaustionDoesNotAbort ==
  (Done /\ ~TruthyStr(query.chain) /\ TruthySym(query.token)
        /\ ~TruthySym(query.pair) /\ watchExhausted) =>
     LET matching == SelectSeq(served, LAMBDA t : symbolHasToken(t, query.token))
         expected == selectResults(query, matching)
     IN /\ \A c \in ChainSet : <<baseUrl, c>> \in requested
        /\ response.kind = "returned"
        /\ IF expected.threw
              \/ \E i \in DOMAIN expected.val : expected.val[i].tnxvalue = NoNum
           THEN ~envelope.success /\ envelope.error = TypeErr.message
           ELSE envelope.success /\ rawData = expected.val

\* C5 witness: the first chain failed three attempts, a later chain served a trade,
\* and the result is a success holding it.
C5_Witness ==
  /\ succeeded
  /\ path = "search"
  /\ watch = <<baseUrl, "ethereum">>
  /\ watchExhausted
  /\ Len(envelope.data) > 0

\* C6: a url whose first attempt, or first two attempts, failed transiently is
\* attempted again; when the upstream answers the third attempt with records after
\* two transient failures, the served trades that reach the filters are in the
\* fetched results, and the call fails only if a trade lacks a field.
C6_ThirdAttemptCounts ==
  /\ (watchHist \in {<<"transient">>, <<"transient", "transient">>}) =>
       url = watch /\ pc \in {"backoff", "fetching"}
  /\ (Done /\ watchHist = <<"transient", "transient", "ok">>) =>
       /\ response.kind = "returned"
       /\ \A i \in DOMAIN served :
            (path = "search" => symbolHasToken(served[i], query.token)) =>
               \E j \in DOMAIN fetched : fetched[j] = served[i]
       /\ ~envelope.success => envelope.error = TypeErr.message
       /\ envelope.success => watch \notin reportedFailed(envelope)

\* C6 witness: the named chain failed twice, answered the third attempt with a
\* trade, and the result holds it.
C6_Witness ==
  /\ succeeded
  /\ path = "chain"
  /\ watchHist = <<"transient", "transient", "ok">>
  /\ Len(envelope.data) > 0

\* C7: no url is fetched more than three times during one call.
C7_AtMostThreeAttempts ==
  /\ watchIssued <= 3
  /\ \A u \in Urls : sequences[u] <= 1

\* C7 witness: three attempts against one url, all failed.
C7_Witness == Done /\ watchIssued = 3 /\ watchExhausted

\* C8: when the query names a chain, the only url ever fetched is that chain's.
C8_OnlyNamedChain ==
  TruthyStr(query.chain) => requested \subseteq {<<baseUrl, query.chain>>}

\* C8 witness: a named chain was retried twice and nothing else was fetched.
C8_Witness ==
  /\ Done
  /\ TruthyStr(query.chain)
  /\ watchIssued = 3
  /\ requested = {<<baseUrl, query.chain>>}

\* C9: when the query names no chain, every source is the object of exactly one
\* fetchWithRetry: with a token and no pair each of the seven chain urls, whatever
\* happened to the chains before it, and never the multi-chain url; otherwise the
\* multi-chain url alone.
C9_EachSourceOnce ==
  (Done /\ ~TruthyStr(query.chain)) =>
     IF TruthySym(query.token) /\ ~TruthySym(query.pair)
     THEN /\ \A c \in ChainSet : sequences[<<baseUrl, c>>] = 1
          /\ sequences[multiUrl] = 0
     ELSE /\ \A c \in ChainSet : sequences[<<baseUrl, c>>] = 0
          /\ sequences[multiUrl] = 1

\* C9 witness: the first chain of the search failed three attempts and the last
\* chain was fetched all the same.
C9_Witness ==
  /\ Done
  /\ path = "search"
  /\ watch = <<baseUrl, "ethereum">>
  /\ watchExhausted
  /\ sequences[<<baseUrl, "blast">>] = 1

\* C10 as stated: whenever the query has a token, every trade of a successful result
\* has a symbol containing the token, whatever the other fields of the query.
C10_TokenFilterAlways ==
  (succeeded /\ TruthySym(query.token)) =>
     \A i \in DOMAIN rawData : symbolHasToken(rawData[i], query.token)

\* ---- C11
\* The two symbols a pair "A/B" names.
pairA(p) == SubSeq(p, 1, (CHOOSE i \in DOMAIN p : p[i] = "/") - 1)
pairB(p) == SubSeq(p, (CHOOSE i \in DOMAIN p : p[i] = "/") + 1, Len(p))

\* Symbol x is symbol y, whatever the case of their letters.
sameSymbol(x, y) ==
  /\ x # NoSym
  /\ Len(x) = Len(y)
  /\ \A i \in DOMAIN x : LowerChar(x[i]) = LowerChar(y[i])

keptByPair(trade, p) ==
  \/ sameSymbol(trade.symbol0, pairA(p)) /\ sameSymbol(trade.symbol1, pairB(p))
  \/ sameSymbol(trade.symbol0, pairB(p)) /\ sameSymbol(trade.symbol1, pairA(p))

onlyPairGiven ==
  /\ TruthySym(query.pair)
  /\ query.token = NoSym
  /\ query.tradeType = NoSym
  /\ query.minValue = NoNum
  /\ query.limit = NoNum

\* C11: with a pair filter "A/B" every returned record has the symbols A and B,
\* exactly and whatever the case, in one order or the other; when the pair is the
\* only filter, the returned records are all the fetched records that have them;
\* and the pair predicate of the two older versions of the tool keeps the same
\* records.
C11_PairExactEitherOrder ==
  (succeeded /\ TruthySym(query.pair)) =>
     /\ \A i \in DOMAIN rawData : keptByPair(rawData[i], query.pair)
     /\ onlyPairGiven =>
          Len(rawData) =
            Cardinality({j \in DOMAIN fetched : keptByPair(fetched[j], query.pair)})
     /\ \A j \in DOMAIN fetched :
          pairMatchesLegacy(fetched[j], query.pair)
            <=> keptByPair(fetched[j], query.pair)

\* The pair is AB/c and the answer held the pair the other way round and in lower
\* case (kept), the pair as written (kept) and cab/C (dropped).
C11_Witness ==
  /\ succeeded
  /\ onlyPairGiven
  /\ query.pair = pairAbC
  /\ fetched = <<tradeE, tradeD, tradeA>>
  /\ rawData = <<tradeD, tradeA>>

\* ---- C12
\* The fetched records that pass the filters of the query, in the order they were
\* fetched in.
passing ==
  afterMinValue(query,
    afterTradeType(query, afterPair(query, afterToken(query, fetched))).val)

atTime(trades, ms) == SelectSeq(trades, LAMBDA t : getTime(t.time) = ms)

isPrefix(a, b) == Len(a) <= Len(b) /\ a = SubSeq(b, 1, Len(a))

noFilterGiven ==
  /\ query.token = NoSym
  /\ query.pair = NoSym
  /\ query.tradeType = NoSym
  /\ query.minValue = NoNum
  /\ query.limit = NoNum

\* C12: of two adjacent records of data the first is not older than the second,
\* and the records of one timestamp come in the order they were fetched in.
C12_LatestFirstStable ==
  succeeded =>
     /\ \A i \in 1..(Len(rawData) - 1) :
          getTime(rawData[i].time) >= getTime(rawData[i + 1].time)
     /\ \A ms \in {getTime(fetched[j].time) : j \in DOMAIN fetched} :
          isPrefix(atTime(rawData, ms), atTime(passing, ms))

\* The oldest trade was fetched first and moves last; the two trades of the latest
\* time keep their order.
C12_Witness ==
  /\ succeeded
  /\ noFilterGiven
  /\ fetched = <<tradeE, tradeD, tradeB>>
  /\ rawData = <<tradeD, tradeB, tradeE>>

\* ---- C13
\* The limit the call asks for: the one given, or 20.
askedLimit == IF query.limit = NoNum THEN 20 ELSE query.limit

Min(a, b) == IF a <= b THEN a ELSE b

\* C13: with a positive limit L, given or the default 20, and M fetched records
\* passing the filters, data has min(L, M) records; they are the first of the
\* passing records in sorted order, and every passing record later than the last
\* record of data is in data.
C13_LimitKeepsLatest ==
  (succeeded /\ askedLimit > 0) =>
     /\ Len(rawData) = Min(askedLimit, Len(passing))
     /\ rawData = SubSeq(sortByTime(passing, <<>>), 1, Len(rawData))
     /\ rawData # <<>> =>
          \A j \in DOMAIN passing :
            getTime(passing[j].time) > getTime(rawData[Len(rawData)].time) =>
               Len(atTime(rawData, getTime(passing[j].time)))
                 = Len(atTime(passing, getTime(passing[j].time)))

\* Three records pass and the limit is 2: the oldest, fetched first, is left out.
C13_Witness ==
  /\ succeeded
  /\ query.limit = 2
  /\ query.token = NoSym /\ query.pair = NoSym
  /\ query.tradeType = NoSym /\ query.minValue = NoNum
  /\ fetched = <<tradeE, tradeA, tradeB>>
  /\ rawData = <<tradeB, tradeA>>

\* ---- C14
\* The sources returned at least one record that names a symbol.
servedSymbols ==
  \E i \in DOMAIN served :
    TruthySym(served[i].symbol0) \/ TruthySym(served[i].symbol1)

\* C14: when the sources returned at least one record and the successful result
\* holds none of them (count is 0), the availableSymbols preview is not empty,
\* whichever endpoint the records came from.
C14_ZeroMatchHasPreview ==
  (succeeded /\ envelope.count = 0 /\ servedSymbols) =>
     envelope.availableSymbols # <<>>

\* The same on the chain endpoint and the multi-chain endpoint alone.
C14_SingleEndpointHasPreview ==
  (path # "search") => C14_ZeroMatchHasPreview

\* ---- C15
\* C15: against an upstream that answers by url and position in the retry sequence
\* alone, the second of two calls with the same arguments returns what the first
\* returned: the same envelope, with the same records in the same order.
C15_SameAnswerTwice ==
  (Done /\ calls = 2) => response = first

\* Both calls searched the seven chains, one of which failed once before it
\* answered, and records came back.
C15_Witness ==
  /\ Done
  /\ calls = 2
  /\ path = "search"
  /\ stub.mode = "once"
  /\ stub.flaky = chainUrl("base")
  /\ succeeded
  /\ rawData # <<>>
  /\ response = first

\* ---- C16
\* C16: a first or second attempt against a url that is answered 2xx with a body
\* that is not { data: [...] } is followed by a backoff wait and a further attempt
\* against that url, as a transient error is.
C16_BadShapeIsRetried ==
  \A n \in 1..2 :
    (Len(watchHist) >= n /\ watchHist[n] = "badbody") =>
       \/ Len(watchHist) > n
       \/ url = watch /\ pc = "backoff"
       \/ url = watch /\ pc = "fetching" /\ watchIssued > n

\* ---- C17
\* The cross-chain search is under way and no chain has finished yet: the sequence
\* of the first chain is running, its fetch in flight or its backoff wait pending.
firstSequenceRunning ==
  /\ path = "search"
  /\ pc \in {"fetching", "backoff"}
  /\ chainsChecked = <<>>

\* C17: in the cross-chain search the sequences of the chains run in parallel:
\* while the sequence of the first chain is running, the fetch of another chain
\* has been issued.
C17_SearchRunsInParallel ==
  firstSequenceRunning =>
     \E i \in 2..Len(supportedChains) :
        chainUrl(supportedChains[i]) \in requested

\* What the loop of line 161 does instead: the chains fetched so far are the chains
\* that have finished and the one that is running.
searchIsSequential ==
  (path = "search" /\ pc \in {"fetching", "backoff"}) =>
     requested =
       {chainUrl(supportedChains[i]) : i \in 1..(Len(chainsChecked) + 1)}

\* ---- C18
\* C18: when the caller has its result no sequence is running: execute is at its
\* end, every fetch issued against a url has been answered, and in the cross-chain
\* search the sequence of each of the seven chains has been run and has ended,
\* whatever the chains before it answered.
C18_ResultAfterAllSettled ==
  (response.kind # "none") =>
     /\ pc = "done"
     /\ watchIssued = Len(watchHist)
     /\ sequences[firstUrl(query)] = 1
     /\ path = "search" =>
          /\ \A c \in ChainSet : sequences[chainUrl(c)] = 1
          /\ Len(chainsChecked) = Len(supportedChains)

\* An earlier chain answered with records that are in the result, and the last
\* chain still went through its three attempts before the result was returned.
C18_Witness ==
  /\ succeeded
  /\ path = "search"
  /\ rawData # <<>>
  /\ watch = chainUrl("blast")
  /\ Len(watchHist) = 3

\* ---- C19
\* Fetches issued against watch that have not been answered yet.
watchInFlight == watchIssued - Len(watchHist)

\* At most one fetch against watch is in flight, and only while its sequence is at
\* the await of line 49; during a backoff wait none is; and all the attempts before
\* the one in flight have failed.
oneAttemptAtATime ==
  /\ watchInFlight \in {0, 1}
  /\ watchInFlight = 1 <=> (url = watch /\ pc = "fetching")
  /\ (url = watch /\ pc \in {"fetching", "backoff"}) =>
        \A i \in DOMAIN watchHist : watchHist[i] = "transient"

\* A further fetch against watch is issued by the step that ends a backoff wait,
\* after the attempt before it has failed, and by no other step.
retryOnlyAfterBackoff ==
  (watchIssued >= 1 /\ watchIssued' = watchIssued + 1) =>
     /\ pc = "backoff" /\ url = watch
     /\ Len(watchHist) = watchIssued
     /\ watchHist[watchIssued] = "transient"
     /\ pc' = "fetching" /\ attempt' = attempt + 1

\* C19: the attempts of one sequence are strictly sequential: attempt n+1 is issued
\* only after attempt n has failed and the backoff wait that follows it is over,
\* and two attempts against one url are never in flight together.
C19_AttemptsSequential == [](oneAttemptAtATime) /\ [][retryOnlyAfterBackoff]_vars

\* The second attempt is in flight after the first one failed.
C19_Witness ==
  /\ url = watch
  /\ pc = "fetching"
  /\ attempt = 2
  /\ watchIssued = 2
  /\ watchHist = <<"transient">>

\* ---- C20
\* C20: the backoff wait that follows failed attempt 1 is 1000 ms and the one that
\* follows failed attempt 2 is 2000 ms, and the first attempt of every sequence
\* runs with the delay at 1000 ms again.
C20_BackoffDoubles ==
  /\ pc = "backoff" =>
       /\ attempt \in {1, 2}
       /\ attempt = 1 => delay = 1000
       /\ attempt = 2 => delay = 2000
  /\ (pc = "fetching" /\ attempt = 1) => delay = 1000

\* The first chain of the search used its three attempts, waiting 1000 ms and then
\* 2000 ms; the second chain has failed once and waits 1000 ms.
C20_Witness ==
  /\ path = "search"
  /\ watch = chainUrl(supportedChains[1])
  /\ watchHist = <<"transient", "transient", "transient">>
  /\ url = chainUrl(supportedChains[2])
  /\ pc = "backoff"
  /\ attempt = 1
  /\ delay = 1000

\* ---- C22
\* The fetched records that pass the token and pair stages of the query.
passingSymbols == afterPair(query, afterToken(query, fetched))

hasValueAtLeast(trade, t) == trade.tnxvalue # NoNum /\ trade.tnxvalue >= t

\* C22: when the query gives a threshold t, whatever its value, every record of a
\* successful result has a value >= t; and, trade type and limit not given, every
\* fetched record with a value >= t that passes the token and pair stages is in the
\* result, the records below t or without a value having been dropped by the
\* stage.
C22_MinValueApplied ==
  (Done /\ query.minValue # NoNum) =>
     /\ succeeded =>
          \A i \in DOMAIN rawData : hasValueAtLeast(rawData[i], query.minValue)
     /\ (query.tradeType = NoSym /\ query.limit = NoNum) =>
          \A j \in DOMAIN passingSymbols :
            hasValueAtLeast(passingSymbols[j], query.minValue) =>
               /\ succeeded
               /\ \E i \in DOMAIN rawData : rawData[i] = passingSymbols[j]

\* The same for the thresholds JavaScript takes as true.
C22_NonZeroMinValueApplied ==
  (query.minValue # 0) => C22_MinValueApplied

\* ---- C23
\* C23: with a limit that is zero or negative the result holds every fetched
\* record that passed the filters, each as often as it was fetched, none left out.
C23_NonPositiveLimitIsNoLimit ==
  (succeeded /\ query.limit # NoNum /\ query.limit <= 0) =>
     /\ Len(rawData) = Len(passing)
     /\ \A ms \in {getTime(fetched[j].time) : j \in DOMAIN fetched} :
          atTime(rawData, ms) = atTime(passing, ms)

\* The limit is 0 and the three fetched records are all returned.
C23_Witness ==
  /\ succeeded
  /\ query.limit = 0
  /\ query.token = NoSym /\ query.pair = NoSym
  /\ query.tradeType = NoSym /\ query.minValue = NoNum
  /\ fetched = <<tradeE, tradeA, tradeB>>
  /\ rawData = <<tradeB, tradeA, tradeE>>

\* ---- C26
RECURSIVE sumOfSizes(_, _)
sumOfSizes(groups, keys) ==
  IF keys = {} THEN 0
  ELSE LET k == CHOOSE x \in keys : TRUE
       IN Len(groups[k]) + sumOfSizes(groups, keys \ {k})

\* The records of data that are in group g, in the order of data.
dataIn(g) ==
  SelectSeq(envelope.data, LAMBDA d : \E i \in DOMAIN g : g[i] = d)

\* C26: in a successful result count is the number of records of data, the sizes
\* of the groups of dataByChain add up to count, and each group holds its records
\* in the order data holds them.
C26_CountAndGroupsAgree ==
  succeeded =>
     /\ envelope.count = Len(envelope.data)
     /\ sumOfSizes(envelope.dataByChain, DOMAIN envelope.dataByChain)
          = envelope.count
     /\ \A k \in DOMAIN envelope.dataByChain :
          envelope.dataByChain[k] = dataIn(envelope.dataByChain[k])

\* Three records in two groups; the group of base holds two of them, in the order
\* of data.
C26_Witness ==
  /\ succeeded
  /\ rawData = <<tradeD, tradeA, tradeE>>
  /\ DOMAIN envelope.dataByChain = {"base", "ethereum"}
  /\ envelope.dataByChain["base"] = <<envelope.data[1], envelope.data[2]>>

\* ---- C24
\* The source a returned trade was fetched from: the chain the call named, in the
\* search the chain whose endpoint served it, and on the multi-chain endpoint the
\* chain the upstream wrote into the trade, unset when it wrote none.
fetchedFrom(trade) ==
  IF path = "chain" THEN query.chain
  ELSE IF path = "search"
       THEN CHOOSE c \in ChainSet :
              \E i \in DOMAIN stubRecords(chainUrl(c)) :
                 stubRecords(chainUrl(c))[i] = trade
       ELSE trade.chain

groupKey(source) == IF source = NoStr THEN "unknown" ELSE source

\* C24: every record of data is in one group of dataByChain and in no other, and
\* the key of its group is the source the record was fetched from, "unknown" when
\* that source is unset.
C24_GroupedBySource ==
  succeeded =>
     /\ \A i \in DOMAIN envelope.data :
          Cardinality({k \in DOMAIN envelope.dataByChain :
                         \E j \in DOMAIN envelope.dataByChain[k] :
                            envelope.dataByChain[k][j] = envelope.data[i]}) = 1
     /\ \A k \in DOMAIN envelope.dataByChain :
          \A j \in DOMAIN envelope.dataByChain[k] :
             groupKey(fetchedFrom(envelope.dataByChain[k][j].raw)) = k

\* The same on the chain endpoint and the multi-chain endpoint alone.
C24_SingleEndpointGroupedBySource ==
  (path # "search") => C24_GroupedBySource

\* ---- C29
\* The messages of the errors fetchWithRetry throws from inside its loop.
thrownInLoop ==
  {httpError.message}
  \cup {failedAfter(e).message : e \in ConnectionErrors \cup {httpError}}

\* C29: fetchWithRetry returns only a response that is OK. When the last attempt
\* against the one endpoint of a call was answered with a non-2xx status or was
\* not answered at all, the caller got no response to read: the call fails with
\* an error thrown inside the loop. And the statement after the loop is never
\* reached: no backoff wait follows the third attempt, and no call fails with
\* 'Unexpected error in fetchWithRetry'.
C29_ReturnsOnlyOk ==
  /\ (Done /\ path # "search" /\ url = watch /\ watchHist # <<>>
        /\ watchHist[Len(watchHist)] \in {"http", "transient"}) =>
       (failed /\ envelope.error \in thrownInLoop)
  /\ (Done /\ path # "search" /\ url = watch /\ succeeded) =>
       (watchHist # <<>> /\ watchHist[Len(watchHist)] = "ok")
  /\ pc = "backoff" => attempt < maxRetries
  /\ failed => envelope.error # unexpectedError.message

\* The third attempt was answered with a non-2xx status and the call failed.
C29_Witness ==
  /\ failed
  /\ path = "chain"
  /\ url = watch
  /\ watchHist = <<"transient", "transient", "http">>
  /\ envelope.error = failedAfter(httpError).message

\* stockChartTool.execute has returned or thrown.
chartFinished == chartPc = "done"

\* The code run resolved, with whatever exit code, and its output was read.
codeRunResolved == chartLocals # <<>>

\* C28: when the chart tool has finished, sandbox.delete() has been called for each
\* sandbox daytona.create() made, whatever happened after the sandbox was made.
C28_SandboxDeleted == chartFinished => deleteCalls = sandboxes

\* The part of C28 the code keeps: a sandbox whose code run resolved is deleted,
\* and a call that returns has deleted its sandbox.
C28_DeletedWhenRunResolves ==
  /\ (chartFinished /\ codeRunResolved) => deleteCalls = sandboxes
  /\ (chartFinished /\ chartOut.kind = "returned") =>
       sandboxes = 1 /\ deleteCalls = 1

\* A sandbox is left behind only by a call that threw before reading any output.
C28_LeakOnlyWhenRunRejects ==
  (chartFinished /\ deleteCalls < sandboxes) =>
     chartOut.kind = "threw" /\ ~codeRunResolved

\* execute of the exchange tool has returned or thrown.
toolDone == toolPc = "done"

toolEnvelope == toolOut.value

\* The fetch of the tool was answered, with a status that is OK.
answeredOk == toolFetched.kind = "response" /\ toolFetched.ok

\* Value v is of the type shape sh names and has the members it names.
fits(v, sh) ==
  /\ v.type = sh.type
  /\ sh.keys \subseteq v.keys
  /\ \A i \in DOMAIN v.items : sh.itemKeys \subseteq v.items[i]

\* The body is JSON with the fields the tool expects, where it expects them.
hasExpectedFields(tool, body) ==
  LET sh == expectedShape(tool)
  IN /\ body.parses
     /\ CASE sh.at = "root" -> fits(body.root, sh)
          [] sh.at = "data" -> fits(body.data, sh)
          [] OTHER -> fits(body.data, sh) \/ fits(body.root, sh)

\* The fetch of the tool failed, or its answer lacks what the tool expects.
upstreamFailed ==
  \/ ~answeredOk
  \/ ~hasExpectedFields(toolCall.tool, toolFetched.body)

reportsFailure ==
  /\ toolOut.kind = "returned"
  /\ ~toolEnvelope.success
  /\ toolEnvelope.error # NoSym
  /\ toolEnvelope.error # <<>>

\* C25: a tool of the Binance, LCX and prediction modules never throws; a status
\* that is not OK, a network error or a body without the expected fields gives an
\* envelope with success false and an error string, and success is true only
\* when the fetch was answered OK and the body was read through.
C25_EnvelopeOnEveryPath ==
  toolDone =>
    /\ toolOut.kind = "returned"
    /\ upstreamFailed => reportsFailure
    /\ toolEnvelope.success => (answeredOk /\ toolFetched.body.parses)

\* The part of C25 the code keeps: no tool throws, a failed fetch and a body that is
\* not JSON are reported as failures, and no failed fetch is reported as a success.
C25_FetchFailureReported ==
  toolDone =>
    /\ toolOut.kind = "returned"
    /\ (~answeredOk \/ ~toolFetched.body.parses) => reportsFailure
    /\ toolEnvelope.success => (answeredOk /\ toolFetched.body.parses)

\* A body without the expected fields is reported as a failure only where reading
\* it throws, or by the check lcxKlineTool makes of its data.
C25_SuccessWithoutFields ==
  (toolDone /\ toolEnvelope.success /\ toolEnvelope.hollow # {}) =>
     /\ answeredOk
     /\ ~hasExpectedFields(toolCall.tool, toolFetched.body)

\* A fetch is in flight.
fetching == pc = "fetching"

\* The timeouts the running attempt set and that are still to fire.
ownTimeouts == {t \in timers : t.of = thisAttempt}

\* The fetch in flight has the timeout of its attempt ahead of it, no more than
\* requestTimeout away, set to abort the controller of this attempt.
deadlineAhead ==
  fetching =>
    \E t \in ownTimeouts :
      /\ t.ctl = controller
      /\ 0 <= t.left /\ t.left <= requestTimeout
      /\ \A r \in ownTimeouts : r = t

\* The step issues a fetch.
issuesFetch ==
  pc' = "fetching" /\ (pc # "fetching" \/ <<url', attempt'>> # thisAttempt)

\* The step is a timeout aborting the fetch in flight.
abortsFetch == fetching /\ fired' # fired /\ fired'[1].aborted

\* A fetch is issued with a timeout of requestTimeout of its own; a fetch aborted at
\* its deadline is a failed attempt like one that met a connection error: with
\* attempts left the loop sleeps for the backoff delay, with none left fetchWithRetry
\* fails; and after the sleep the same url is fetched by the next attempt.
abortIsTransient ==
  /\ issuesFetch =>
       Timeout(<<url', attempt'>>, <<url', attempt'>>, requestTimeout) \in timers'
  /\ abortsFetch =>
       /\ \E t \in ownTimeouts : t.left = 0 /\ t \notin timers'
       /\ curFails' = (IF pc' = "fetching" THEN 0 ELSE curFails + 1)
       /\ IF attempt < maxRetries
          THEN pc' = "backoff" /\ <<url', attempt'>> = thisAttempt
               /\ sleepLeft' = delay
          ELSE pc' = "done" \/ (pc' = "fetching" /\ url' # url)
  /\ (pc = "backoff" /\ pc' # "backoff") =>
       pc' = "fetching" /\ url' = url /\ attempt' = attempt + 1

\* C21: each attempt has a timeout of 10 seconds of its own; a fetch still in flight
\* at its deadline is aborted, the abort is a transient failure, and while attempts
\* are left the same source is fetched again after the backoff.
C21_TimeoutPerAttempt == [](deadlineAhead) /\ [][abortIsTransient]_vars

\* The first attempt was aborted at its deadline and the second has fetched the same
\* url since.
C21_Witness ==
  /\ fired # <<>>
  /\ fired[1].aborted
  /\ fetching
  /\ attempt = 2
  /\ fired[1].of = <<url, 1>>

\* The timeout that fired last aborted a fetch only if the fetch is that of the
\* attempt that set the timeout.
abortsOwnFetchOnly ==
  (fired # <<>> /\ fired[1].aborted) => fired[1].of = fired[1].during

\* A timeout that fires without aborting the fetch in flight changes nothing of
\* fetchWithRetry: the fetch stays in flight and its own timeout stays set.
lateFiringIsIdle ==
  (fired' # fired /\ ~fired'[1].aborted) =>
     /\ UNCHANGED <<pc, url, attempt, delay, controller, response, watchHist>>
     /\ fetching => ownTimeouts \subseteq timers'

\* C30: the timeout of an attempt aborts the fetch of that attempt and no other; one
\* that outlives its attempt fires without effect on the fetch of a later attempt
\* or of another source.
C30_TimeoutAbortsOwnAttempt ==
  [](abortsOwnFetchOnly) /\ [][lateFiringIsIdle]_vars

\* A timeout left over from an attempt on one source has fired while a fetch of
\* another source was in flight, and that fetch is still in flight.
C30_Witness ==
  /\ fired # <<>>
  /\ ~fired[1].aborted
  /\ fired[1].during # <<>>
  /\ fired[1].during[1] # fired[1].of[1]
  /\ fetching
  /\ thisAttempt = fired[1].during

\* The same for a later attempt on the same source.
C30_LaterAttemptWitness ==
  /\ fired # <<>>
  /\ ~fired[1].aborted
  /\ fired[1].during # <<>>
  /\ fired[1].during[1] = fired[1].of[1]
  /\ fired[1].during[2] > fired[1].of[2]
  /\ fetching
  /\ thisAttempt = fired[1].during

\* No source is fetched by more than one sequence of attempts, no sequence has
\* more than maxRetries attempts and no more sources are fetched than there are
\* chains.
attemptsBounded ==
  /\ attempt <= maxRetries
  /\ curFails <= maxRetries
  /\ watchIssued <= maxRetries
  /\ \A u \in Urls : sequences[u] <= 1
  /\ Cardinality(requested) <= Len(supportedChains)

\* C27: a call of the big-swaps tool returns in the end, however many of its fetches
\* stay unanswered: each is aborted by its timeout, and the attempts are at most
\* maxRetries for each of at most seven sources.
C27_CallReturns == [](attemptsBounded) /\ <>(Done)

\* The call has returned after three attempts on its one source, the last of them
\* aborted by its timeout.
C27_Witness ==
  /\ Done
  /\ path # "search"
  /\ curFails = maxRetries
  /\ fired # <<>>
  /\ fired[1].aborted
  /\ fired[1].of = <<url, maxRetries>>

====
